---- MODULE Spec2Model ----
(***************************************************************************)
(* LLProxy: the admission and rate-limiting core.                          *)
(*                                                                         *)
(* One Scheduler (scheduler.go) of one model, the handler goroutines of    *)
(* OpenAIProvider.GetHandler that feed it, and the chat-completion token   *)
(* estimator whose result is the RequiredTokenCapacity of a reservation.   *)
(*                                                                         *)
(* Time.  The clock `now` counts whole seconds; every clock reading of the *)
(* program (time.Now, the end of a time.Sleep, the firing of time.After)   *)
(* falls on that grid, a sleep ending at the first grid point that is not  *)
(* before its duration.  The steps of a goroutine that is able to run take *)
(* no time: the clock advances only when the scheduler is parked in its    *)
(* select or in time.Sleep and no handler is able to enqueue.              *)
(*                                                                         *)
(* Capacities.  RequestCapacity and TokenCapacity are float64 in the code; *)
(* here they are exact and stored in sixtieths (one unit is                *)
(* 1/SecondsPerMinute of a request or of a token), so that the             *)
(* replenishment of one second at an integer rate per minute is a whole    *)
(* number of units.                                                        *)
(*                                                                         *)
(* Machine integers.  A Go int is a sequence of Bytes digits in base       *)
(* Base, least significant first, in two's complement, so that the         *)
(* product n * maxTokens wraps as the 64-bit multiplication does.          *)
(***************************************************************************)
EXTENDS Integers, Sequences, FiniteSets, TLC

\* ------------------------------------------------------------------ bounds

\* Number of requests the handlers receive in one behaviour.
MaxReqs == 3
\* Arrivals happen at clock readings 0..MaxTime; the clock runs on for the
\* idle period of the scheduler and for as long as a reservation is
\* outstanding.
MaxTime == 1
\* Number of requests of any kind the handler of the route receives in one
\* behaviour.
MaxServed == 2
\* Number of messages of a chat completion request.
MaxMessages == 2
\* Number of GET /readyz the health server answers in one behaviour.
MaxProbes == 2
\* Number of requests the handlers take for the second model in one
\* behaviour.
MaxPeerReqs == 1

\* --------------------------------------------------------- program constants

SecondsPerMinute == 60
\* time.After(time.Second * 2.0) in run, and the 2.0 of waitForCapacity
IdleSeconds == 2
MaxSleepSeconds == 2
\* epsilon = 0.1, in tenths of a second
EpsilonTenths == 1
MillisPerSecond == 1000
\* When maxTokens is not set in the request estimate 15
DefaultMaxTokens == 15
TokensPerRequest == 3
PlaceholderTokens == 1000
\* a Go int: Bytes digits in base Base
Bytes == 8
Base == 256
\* sig := make(chan os.Signal, 1)
SigBuffer == 1
\* the defaults of LoadConfig
DefaultPort == 8080
DefaultHealthPort == 8081
StatusOK == 200
StatusBadRequest == 400
StatusNotFound == 404
StatusTooManyRequests == 429
StatusServiceUnavailable == 503

Ready == "Ready"
RateLimit == "RateLimit"
RequestTooLarge == "RequestTooLarge"

Max(a, b) == IF a >= b THEN a ELSE b
Min(a, b) == IF a <= b THEN a ELSE b

\* ------------------------------------------------------- 64-bit arithmetic

RECURSIVE DigitsOf(_, _)
\* The k low digits of the integer v (two's complement for a negative v).
DigitsOf(v, k) ==
    IF k = 0 THEN << >> ELSE << v % Base >> \o DigitsOf(v \div Base, k - 1)

ToInt64(v) == DigitsOf(v, Bytes)

IsNegative(x) == x[Bytes] >= Base \div 2

RECURSIVE Horner(_, _, _)
Horner(x, i, acc) ==
    IF i = 0 THEN acc ELSE Horner(x, i - 1, acc * Base + x[i])

\* The signed value of x, for an x whose value fits the integers of TLC.
FromInt64(x) ==
    Horner(x, Bytes - 1, IF IsNegative(x) THEN x[Bytes] - Base ELSE x[Bytes])

RECURSIVE AddFrom(_, _, _, _)
AddFrom(x, y, i, carry) ==
    IF i > Bytes THEN << >>
    ELSE LET s == x[i] + y[i] + carry
         IN  << s % Base >> \o AddFrom(x, y, i + 1, s \div Base)

\* x + y of two Go ints: the sum modulo 2^64
AddInt64(x, y) == AddFrom(x, y, 1, 0)

RECURSIVE Column(_, _, _, _)
\* sum of x[i] * y[k + 1 - i] for i in 1..j
Column(x, y, k, j) ==
    IF j = 0 THEN 0 ELSE x[j] * y[k + 1 - j] + Column(x, y, k, j - 1)

RECURSIVE MulFrom(_, _, _, _)
MulFrom(x, y, k, carry) ==
    IF k > Bytes THEN << >>
    ELSE LET s == Column(x, y, k, k) + carry
         IN  << s % Base >> \o MulFrom(x, y, k + 1, s \div Base)

\* x * y of two Go ints: the product modulo 2^64
MulInt64(x, y) == MulFrom(x, y, 1, 0)

\* x < 1 for a Go int x
LessThanOne(x) == IsNegative(x) \/ (\A i \in 1 .. Bytes : x[i] = 0)

\* ------------------------------------------------------------------ strings

\* A Go string is the sequence of its characters.

\* strings.HasSuffix(s, suffix)
HasSuffix(s, suffix) ==
    /\ Len(s) >= Len(suffix)
    /\ SubSeq(s, Len(s) - Len(suffix) + 1, Len(s)) = suffix

\* strings.Contains(s, substr)
Contains(s, substr) ==
    \E i \in 1 .. Len(s) - Len(substr) + 1 :
        SubSeq(s, i, i + Len(substr) - 1) = substr

\* The index of the first "/" of s from i on, Len(s) + 1 if there is none.
RECURSIVE IndexFrom(_, _)
IndexFrom(s, i) ==
    IF i > Len(s) \/ s[i] = "/" THEN i ELSE IndexFrom(s, i + 1)

\* strings.Split(s, "/")
RECURSIVE Split(_)
Split(s) ==
    LET i == IndexFrom(s, 1)
    IN  IF i > Len(s) THEN << s >>
        ELSE << SubSeq(s, 1, i - 1) >> \o Split(SubSeq(s, i + 1, Len(s)))

\* strings.Join(segments, "/")
RECURSIVE Join(_)
Join(segments) ==
    IF segments = << >> THEN << >>
    ELSE IF Len(segments) = 1 THEN segments[1]
    ELSE segments[1] \o << "/" >> \o Join(Tail(segments))

\* The substrings and suffixes ParseRequest looks for in r.URL.Path.
V1Files == << "/", "v", "1", "/", "f", "i", "l", "e", "s" >>
V1FineTunes == << "/", "v", "1", "/", "f", "i", "n", "e", "-", "t", "u", "n", "e", "s" >>
V1Moderations == << "/", "v", "1", "/", "m", "o", "d", "e", "r", "a", "t", "i", "o", "n", "s" >>
V1Images == << "/", "v", "1", "/", "i", "m", "a", "g", "e", "s" >>
V1Audio == << "/", "v", "1", "/", "a", "u", "d", "i", "o" >>
V1ChatCompletions == << "/", "v", "1", "/", "c", "h", "a", "t", "/", "c", "o", "m", "p", "l", "e", "t", "i", "o", "n", "s" >>
V1Completions == << "/", "v", "1", "/", "c", "o", "m", "p", "l", "e", "t", "i", "o", "n", "s" >>
V1Embeddings == << "/", "v", "1", "/", "e", "m", "b", "e", "d", "d", "i", "n", "g", "s" >>
V1Edits == << "/", "v", "1", "/", "e", "d", "i", "t", "s" >>

\* ---------------------------------------------------------- token estimator

GPT_3_5_DEFAULT == "gpt-3.5-turbo-0613"
GPT_4_DEFAULT == "gpt-4-0613"

\* The model names the requests of this model carry, and what the two string
\* tests of TokensForRequest answer on them.
PinnedModels ==
    { "gpt-3.5-turbo-0613", "gpt-3.5-turbo-16k-0613", "gpt-4-0314",
      "gpt-4-32k-0314", "gpt-4-0613", "gpt-4-32k-0613" }
FamilyModels ==
    PinnedModels \cup
        { "gpt-3.5-turbo", "gpt-3.5-turbo-0301", "gpt-3.5-turbo-1106", "gpt-4" }

\* tiktoken.EncodingForModel(model) returns an error
EncodingError(model) == model \notin FamilyModels

\* model after the aliasing of the unpinned names
AliasedModel(model) ==
    IF model = "gpt-3.5-turbo" THEN GPT_3_5_DEFAULT
    ELSE IF model = "gpt-4" THEN GPT_4_DEFAULT
    ELSE model

TokensPerMessage(model) == IF model = "gpt-3.5-turbo-0301" THEN 4 ELSE 3
TokensPerName(model) == IF model = "gpt-3.5-turbo-0301" THEN -1 ELSE 1

RECURSIVE MessageTokens(_, _)
\* The loop over r.Messages; Content, Role and Name are the lengths of the
\* encodings, and a name is non-empty exactly when its encoding is.
MessageTokens(model, messages) ==
    IF messages = << >> THEN 0
    ELSE LET m == Head(messages)
         IN  TokensPerMessage(model) + m.Content + m.Role + m.Name
             + (IF m.Name # 0 THEN TokensPerName(model) ELSE 0)
             + MessageTokens(model, Tail(messages))

\* n * maxTokens after the two defaults, as a Go int
ResponseTokens(r) ==
    LET n == IF LessThanOne(r.N) THEN ToInt64(1) ELSE r.N
        maxTokens ==
            IF LessThanOne(r.MaxTokens) THEN ToInt64(DefaultMaxTokens)
            ELSE r.MaxTokens
    IN  MulInt64(n, maxTokens)

\* (r *ChatCompletionRequest) TokensForRequest: [err, numTokens]
ChatTokensForRequest(r) ==
    IF EncodingError(r.Model) THEN [err |-> TRUE, numTokens |-> 0]
    ELSE LET model == AliasedModel(r.Model)
             fixed == MessageTokens(model, r.Messages) + TokensPerRequest
         IN  [err |-> FALSE,
              numTokens |->
                  FromInt64(AddInt64(ToInt64(fixed), ResponseTokens(r)))]

\* TokensForRequest of the request kinds
TokensForRequest(r) ==
    IF r.Kind = "chat" THEN ChatTokensForRequest(r)
    ELSE [err |-> FALSE, numTokens |-> PlaceholderTokens]

\* ------------------------------------------------------------- ParseRequest

\* An http.Request as the handler sees it: Method, Path (r.URL.Path) and
\* Body: whether ioutil.ReadAll(r.Body) returns an error (ReadErr) and, of
\* the bytes read, the JSON document: whether it decodes (Valid) and the
\* fields the request structs read from it, Model being "" when the document
\* has no model.

\* The Request of a ParseRequest that returns none (a nil interface).
NoRequest == [Kind |-> "nil"]

\* return model, request, err
parsed(model, request, err) ==
    [model |-> model, request |-> request, err |-> err, panic |-> FALSE]

\* json.Unmarshal with its error ignored: the request struct keeps its zero
\* values.
unmarshalledIgnoringError(kind, r) ==
    parsed(r.Body.Model,
           [Kind |-> kind, Model |-> r.Body.Model,
            Messages |-> r.Body.Messages, N |-> r.Body.N,
            MaxTokens |-> r.Body.MaxTokens],
           FALSE)

\* json.Unmarshal(bodyRaw, request) for the request struct of a kind, and
\* the return that follows it
unmarshalled(kind, r) ==
    IF ~r.Body.Valid THEN parsed("", NoRequest, TRUE)
    ELSE parsed(r.Body.Model,
                [Kind |-> kind, Model |-> r.Body.Model,
                 Messages |-> r.Body.Messages, N |-> r.Body.N,
                 MaxTokens |-> r.Body.MaxTokens],
                FALSE)

\* request.Model.String() of an EmbeddingRequest decoded from a document
\* with this model: go-openai's EmbeddingModel keeps the names it knows
\* (of the names of the requests here, "text-embedding-ada-002"), its
\* UnmarshalText maps every other name to Unknown, and the String() of
\* Unknown is "".
EmbeddingModelString(name) ==
    IF name \in { "text-embedding-ada-002" } THEN name ELSE ""

\* The case of /v1/embeddings: Model is an EmbeddingModel, and the model
\* returned is request.Model.String().
unmarshalledEmbedding(r) ==
    LET p == unmarshalled("embedding", r)
    IN  IF p.err THEN p
        ELSE parsed(EmbeddingModelString(r.Body.Model),
                    [p.request EXCEPT
                         !.Model = EmbeddingModelString(r.Body.Model)],
                    FALSE)

\* The case of /v1/edits: Model is a *string, nil when the document has no
\* model, and *request.Model dereferences it.
unmarshalledEdits(r) ==
    IF r.Body.Valid /\ r.Body.Model = ""
    THEN [model |-> "", request |-> NoRequest, err |-> FALSE, panic |-> TRUE]
    ELSE unmarshalled("edits", r)

\* ParseRequest from the reading of the body on: the error of
\* ioutil.ReadAll is returned whatever the path, and the switch on
\* r.URL.Path follows
parsedByPath(r) ==
    IF r.Body.ReadErr THEN parsed("", NoRequest, TRUE)
    ELSE IF Contains(r.Path, V1Files) THEN parsed("", NoRequest, FALSE)
    ELSE IF Contains(r.Path, V1FineTunes) THEN parsed("", NoRequest, FALSE)
    ELSE IF Contains(r.Path, V1Moderations) THEN parsed("", NoRequest, FALSE)
    ELSE IF Contains(r.Path, V1Images) THEN parsed("DALL-E 2", NoRequest, FALSE)
    ELSE IF Contains(r.Path, V1Audio) THEN unmarshalled("audio", r)
    ELSE IF HasSuffix(r.Path, V1ChatCompletions) THEN unmarshalled("chat", r)
    ELSE IF HasSuffix(r.Path, V1Completions)
    THEN unmarshalled("completion", r)
    ELSE IF HasSuffix(r.Path, V1Embeddings) THEN unmarshalledEmbedding(r)
    ELSE IF HasSuffix(r.Path, V1Edits) THEN unmarshalledEdits(r)
    ELSE parsed("", NoRequest, FALSE)

\* ParseRequest without the test of r.Method.
ParseRequestOfAnyMethod(r) == parsedByPath(r)

ParseRequest(r) ==
    IF r.Method # "POST" THEN parsed("", NoRequest, FALSE)
    ELSE parsedByPath(r)

\* ----------------------------------------------------------- forwardRequest

\* MockHttpClient.Do on a request with this URL path: the upstream, and the
\* response an http.Client brings from it.
Do(path) ==
    IF HasSuffix(path, V1ChatCompletions)
    THEN [StatusCode |-> StatusOK, Body |-> "dummy response"]
    ELSE IF HasSuffix(path, V1Embeddings)
    THEN [StatusCode |-> StatusOK, Body |-> "dummy embedding"]
    ELSE [StatusCode |-> StatusNotFound, Body |-> "not found"]

\* The segments joined with none of them stripped.
stripNone(segments) == Join(segments)

\* strings.Join(segments[2:], "/")
stripFirst(segments) == Join(SubSeq(segments, 3, Len(segments)))

\* The path of the URL of http.NewRequest(r.Method, url.String(), r.Body):
\* url.String() puts a "/" between the host and a path that does not begin
\* with one.
requestPath(newPath) ==
    IF newPath # << >> /\ newPath[1] # "/" THEN << "/" >> \o newPath
    ELSE newPath

\* The path of the request line the upstream reads: "/" for an empty path.
RequestURI(path) == IF path = << >> THEN << "/" >> ELSE path

\* url.Parse returns an error: of its errors the one these strings can
\* meet, "missing protocol scheme" for a string that begins with ":".
urlParseFails(rawURL) == rawURL # << >> /\ rawURL[1] = ":"

\* o.client and o.urlBase of the OpenAIProvider: what the Do of the client
\* does, and the forward of the route.
VARIABLE provider

\* forwardRequest with o.client and o.urlBase: err, whether client.Do had
\* been called (sent) and whether w.WriteHeader had (begun) when it returned,
\* the path of the request sent to the upstream and the response copied back
\* to w.  The returns, in order: url.Parse(r.URL.String()) (the String() of
\* a URL that has a path alone puts "./" before a path whose first segment
\* holds a ":"), len(segments) < 2, url.Parse(URLBase), http.NewRequest on
\* url.String() (scheme and host of URLBase before the new path), client.Do,
\* and io.Copy after w.WriteHeader(resp.StatusCode).
forwardRequest(r) ==
    LET rawURL == IF Contains(Split(r.Path)[1], << ":" >>)
                  THEN << ".", "/" >> \o r.Path
                  ELSE r.Path
        segments == Split(rawURL)
        path == requestPath(stripFirst(segments))
        resp == Do(path)
        failed == [err |-> TRUE, sent |-> FALSE, begun |-> FALSE,
                   path |-> << >>, StatusCode |-> 0, Body |-> ""]
    IN  IF urlParseFails(rawURL) THEN failed
        ELSE IF Len(segments) < 2 THEN failed
        ELSE IF urlParseFails(provider.urlBase) THEN failed
        ELSE IF urlParseFails(provider.urlBase \o path) THEN failed
        ELSE IF provider.client = "refusing"
        THEN [err |-> TRUE, sent |-> TRUE, begun |-> FALSE,
              path |-> RequestURI(path), StatusCode |-> 0, Body |-> ""]
        ELSE IF provider.client = "truncating"
        THEN [err |-> TRUE, sent |-> TRUE, begun |-> TRUE,
              path |-> RequestURI(path), StatusCode |-> resp.StatusCode,
              Body |-> ""]
        ELSE [err |-> FALSE, sent |-> TRUE, begun |-> TRUE,
              path |-> RequestURI(path), StatusCode |-> resp.StatusCode,
              Body |-> resp.Body]

\* ------------------------------------------------------------------ inputs

\* ModelConfig of the scheduler's model (config.go); MaxQueueWait in seconds.
Configs ==
    { [MaxQueueSize |-> 2, MaxQueueWait |-> 1,
       ReqsPerMinute |-> 2, TokensPerMinute |-> 60] }

\* The ModelConfigs a scheduler may be built with: that of Configs, and
\* those whose ReqsPerMinute or TokensPerMinute is 1 or less.
StartConfigs ==
    Configs \cup
        { [MaxQueueSize |-> 2, MaxQueueWait |-> 1,
           ReqsPerMinute |-> 1, TokensPerMinute |-> 60],
          [MaxQueueSize |-> 2, MaxQueueWait |-> 1,
           ReqsPerMinute |-> 0, TokensPerMinute |-> 60],
          [MaxQueueSize |-> 2, MaxQueueWait |-> 1,
           ReqsPerMinute |-> 2, TokensPerMinute |-> 1] }

\* const TEST_MODEL of the tests, the model of the scheduler
TEST_MODEL == "gpt-3.5-turbo"

ChatRequest(messages, n, maxTokens) ==
    [Kind |-> "chat", Model |-> TEST_MODEL, Messages |-> messages,
     N |-> n, MaxTokens |-> maxTokens]

\* n whose product with max_tokens = 3 wraps to -31: (2^64 - 31) / 3
WrappingN == << 75, 85, 85, 85, 85, 85, 85, 85 >>

\* The request bodies the handlers receive.
Bodies ==
    { ChatRequest(<< [Content |-> 1, Role |-> 1, Name |-> 0] >>,
                  ToInt64(0), ToInt64(23)),
      ChatRequest(<< >>, WrappingN, ToInt64(3)),
      ChatRequest(<< >>, ToInt64(2), ToInt64(40)) }

\* The chat completion requests the estimator is applied to: every family of
\* model names and a name of none, up to MaxMessages messages with and
\* without a name, n and max_tokens unset, negative, small, and an n whose
\* product with max_tokens wraps.
CostModels ==
    { "gpt-3.5-turbo", "gpt-3.5-turbo-0301", "gpt-3.5-turbo-1106", "gpt-4",
      "foo" }
CostRequests ==
    { [Kind |-> "chat", Model |-> model, Messages |-> messages, N |-> n,
       MaxTokens |-> maxTokens] :
        model \in CostModels,
        messages \in UNION { [1 .. m -> [Content : {1, 7}, Role : {1},
                                         Name : {0, 2}]] :
                                 m \in 0 .. MaxMessages },
        n \in { ToInt64(0), ToInt64(1), ToInt64(2), ToInt64(-1), WrappingN },
        maxTokens \in { ToInt64(0), ToInt64(-5), ToInt64(3), ToInt64(60) } }

\* Paths under the route /openai.
RoutePath == << "/", "o", "p", "e", "n", "a", "i" >>
RouteSlashPath == << "/", "o", "p", "e", "n", "a", "i", "/" >>
BadRoutePath == << "/", "o", "p", "e", "n", "a", "i", "/", "b", "a", "d", "r", "o", "u", "t", "e" >>
FilesPath == << "/", "o", "p", "e", "n", "a", "i", "/", "v", "1", "/", "f", "i", "l", "e", "s" >>
ImagesPath == << "/", "o", "p", "e", "n", "a", "i", "/", "v", "1", "/", "i", "m", "a", "g", "e", "s", "/", "g", "e", "n", "e", "r", "a", "t", "i", "o", "n", "s" >>
ChatPath == << "/", "o", "p", "e", "n", "a", "i", "/", "v", "1", "/", "c", "h", "a", "t", "/", "c", "o", "m", "p", "l", "e", "t", "i", "o", "n", "s" >>
EmbeddingsPath == << "/", "o", "p", "e", "n", "a", "i", "/", "v", "1", "/", "e", "m", "b", "e", "d", "d", "i", "n", "g", "s" >>

\* CreateOpenAI: the provider of the tests, NewOpenAI with the MockHttpClient
\* and FAKE_BASE_URL, "https://fake-testing-host.com".
tested ==
    [client |-> "mock",
     urlBase |-> << "h", "t", "t", "p", "s", ":", "/", "/", "f", "a", "k",
                    "e", "-", "t", "e", "s", "t", "i", "n", "g", "-", "h",
                    "o", "s", "t", ".", "c", "o", "m" >>]

\* NewOpenAI(config, client) with the forward of the route as urlBase, which
\* it does not parse (":" is a forward url.Parse refuses), and with a client
\* that answers as the upstream of the tests does ("mock"), whose Do returns
\* an error ("refusing": no connection to the upstream), or whose response
\* has a Body that fails on Read ("truncating": the upstream goes away after
\* the header).
Providers ==
    { tested,
      [client |-> "mock", urlBase |-> << ":" >>],
      [client |-> "refusing", urlBase |-> tested.urlBase],
      [client |-> "truncating", urlBase |-> tested.urlBase] }

\* A body that is a JSON document, and the empty body; both are read
\* without an error.
Json(model, messages, n, maxTokens) ==
    [ReadErr |-> FALSE, Valid |-> TRUE, Model |-> model,
     Messages |-> messages, N |-> n, MaxTokens |-> maxTokens]
NoBody == [ReadErr |-> FALSE, Valid |-> FALSE, Model |-> "",
           Messages |-> << >>, N |-> ToInt64(0), MaxTokens |-> ToInt64(0)]

NewRequest(method, path, body) ==
    [Method |-> method, Path |-> path, Body |-> body]

\* POST /openai/v1/chat/completions with the JSON encoding of the request
ChatPost(request) ==
    NewRequest("POST", ChatPath,
               Json(request.Model, request.Messages, request.N,
                    request.MaxTokens))

OneMessage == << [Content |-> 1, Role |-> 1, Name |-> 0] >>

\* The requests the handler of the route receives; one of them has a body
\* whose Read fails (the connection closes before Content-Length bytes).
HttpRequests ==
    { NewRequest("GET", ChatPath, NoBody),
      NewRequest("GET", RoutePath, NoBody),
      NewRequest("GET", RouteSlashPath, NoBody),
      NewRequest("DELETE", FilesPath, NoBody),
      NewRequest("POST", BadRoutePath, NoBody),
      NewRequest("POST", BadRoutePath, [NoBody EXCEPT !.ReadErr = TRUE]),
      NewRequest("POST", ChatPath, NoBody),
      NewRequest("POST", EmbeddingsPath, NoBody),
      NewRequest("POST", ChatPath,
                 Json("", OneMessage, ToInt64(0), ToInt64(23))),
      NewRequest("POST", ChatPath,
                 Json(TEST_MODEL, OneMessage, ToInt64(0), ToInt64(23))),
      NewRequest("POST", ChatPath,
                 Json(TEST_MODEL, << >>, ToInt64(2), ToInt64(40))),
      NewRequest("POST", EmbeddingsPath,
                 Json(TEST_MODEL, << >>, ToInt64(0), ToInt64(0))) }

\* The requests of embeddings and of a chat completion by the name of their
\* model, the generation of an image and an edit without a model, beside a
\* request of the route itself and the upload of a file.
DirectRequests ==
    { NewRequest("GET", RoutePath, NoBody),
      NewRequest("POST", FilesPath, NoBody),
      NewRequest("POST", ImagesPath, NoBody),
      NewRequest("POST", RoutePath \o V1Edits,
                 Json("", << >>, ToInt64(0), ToInt64(0))),
      NewRequest("POST", ChatPath,
                 Json("gpt-4", OneMessage, ToInt64(0), ToInt64(23))),
      NewRequest("POST", EmbeddingsPath,
                 Json("text-embedding-ada-002", << >>, ToInt64(0),
                      ToInt64(0))),
      NewRequest("POST", EmbeddingsPath,
                 Json("gpt-4", << >>, ToInt64(0), ToInt64(0))),
      NewRequest("POST", ChatPath,
                 Json(TEST_MODEL, OneMessage, ToInt64(0), ToInt64(23))) }

\* ------------------------------------------------------------------- state

VARIABLES
    now,              \* the clock, in seconds
    Config,           \* scheduler.Config
    schedulers,       \* the keys of o.schedulers, the SchedulerMap
    Requests,         \* scheduler.Requests: the buffered channel, ids in order
    LastReqTime,      \* scheduler.LastReqTime
    RequestCapacity,  \* scheduler.RequestCapacity, in sixtieths
    TokenCapacity,    \* scheduler.TokenCapacity, in sixtieths
    sched,            \* the goroutine of run: where it is and what it holds
    resv,             \* the requests handled so far, one record per handler
    enqueues,         \* number of sends on scheduler.Requests completed
    debited,          \* tokens allocated so far by run (not in sixtieths)
    main,             \* main: isReady, the signals, the shutdown of the server
    peer              \* the Scheduler of a second model and its handlers

vars ==
    << now, Config, schedulers, Requests, LastReqTime, RequestCapacity,
       TokenCapacity, sched, resv, enqueues, debited, main, peer,
       provider >>

Units(x) == x * SecondsPerMinute

\* ------------------------------------------------------------- scheduler.go

\* updateCapacity measuring elapsed from the start of the process instead of
\* from LastReqTime.
updateCapacityFromStart(tc, rc, last, t) ==
    [TokenCapacity |->
         Min(tc + t * Config.TokensPerMinute, Units(Config.TokensPerMinute)),
     RequestCapacity |->
         Min(rc + t * Config.ReqsPerMinute, Units(Config.ReqsPerMinute)),
     LastReqTime |-> t]

\* updateCapacity skipping the arithmetic as soon as one of the capacities is
\* full.
updateCapacityWhenBothLow(tc, rc, last, t) ==
    IF tc < Units(Config.TokensPerMinute) /\ rc < Units(Config.ReqsPerMinute)
    THEN [TokenCapacity |->
              Min(tc + (t - last) * Config.TokensPerMinute,
                  Units(Config.TokensPerMinute)),
          RequestCapacity |->
              Min(rc + (t - last) * Config.ReqsPerMinute,
                  Units(Config.ReqsPerMinute)),
          LastReqTime |-> t]
    ELSE [TokenCapacity |-> tc, RequestCapacity |-> rc, LastReqTime |-> t]

\* updateCapacity at clock reading t: the three fields it leaves
updateCapacity(tc, rc, last, t) ==
    IF tc < Units(Config.TokensPerMinute) \/ rc < Units(Config.ReqsPerMinute)
    THEN LET elapsed == t - last
             tokenCapacity == tc + elapsed * Config.TokensPerMinute
             requestCapacity == rc + elapsed * Config.ReqsPerMinute
         IN  [TokenCapacity |->
                  Min(tokenCapacity, Units(Config.TokensPerMinute)),
              RequestCapacity |->
                  Min(requestCapacity, Units(Config.ReqsPerMinute)),
              LastReqTime |-> t]
    ELSE [TokenCapacity |-> tc, RequestCapacity |-> rc, LastReqTime |-> t]

\* Rationals [num, den], den > 0.
RatMax(a, b) == IF a.num * b.den >= b.num * a.den THEN a ELSE b

\* requestTime, tokensTime, capacityTime of waitForCapacity, in minutes
requestTime(rc) ==
    [num |-> Max(0, Units(1) - rc), den |-> Units(Config.ReqsPerMinute)]
tokensTime(tc, tokens) ==
    [num |-> Max(0, Units(tokens) - tc),
     den |-> Units(Config.TokensPerMinute)]
capacityTime(tc, rc, tokens) == RatMax(requestTime(rc), tokensTime(tc, tokens))

\* The test of waitForCapacity looking at requestTime alone.
haveRequestCapacity(tc, rc, tokens) == requestTime(rc).num <= 0

\* The test of waitForCapacity as capacityTime < 0.0.
haveCapacityStrict(tc, rc, tokens) == capacityTime(tc, rc, tokens).num < 0

\* capacityTime <= 0.0: "We have capacity now"
haveCapacity(tc, rc, tokens) == capacityTime(tc, rc, tokens).num <= 0

\* sleepTime, in milliseconds: min(2.0, capacityTime + epsilon) seconds, the
\* number of minutes capacityTime being added to epsilon as it stands
sleepTime(tc, rc, tokens) ==
    LET ct == capacityTime(tc, rc, tokens)
    IN  Min(MaxSleepSeconds * MillisPerSecond,
            ((10 * ct.num + EpsilonTenths * ct.den) * (MillisPerSecond \div 10))
                \div ct.den)

\* The clock reading at which a time.Sleep(sleepTime) begun at t returns.
wakeTime(t, millis) == t + (millis + MillisPerSecond - 1) \div MillisPerSecond

\* ------------------------------------------------------------ the handlers

\* The process has not exited: zap's Fatalw logs and calls os.Exit(1), which
\* ends every goroutine, and so does the return of main.
running == sched.pc # "fatal" /\ ~main.exited

\* The ids of the requests handled so far.
Ids == 1 .. Len(resv)

\* The handlers parked on the send scheduler.Requests <- ..., oldest first.
Senders == { i \in Ids : resv[i].pc = "send" }

\* What a handler has done so far: whether it has come to the send on
\* scheduler.Requests, the status lines written to w (the client reads the
\* first), the message of an http.Error, the body relayed from the upstream,
\* whether client.Do was called (forwarded), whether the status of the
\* upstream was written to w (relayed), and whether the handler panicked.
started ==
    [sends |-> FALSE, tokens |-> 0, model |-> "", written |-> << >>,
     message |-> "", body |-> "", forwarded |-> FALSE, relayed |-> FALSE,
     fault |-> FALSE]

\* http.Error(w, message, code) and the return that follows it
rejected(h, message, code) ==
    [h EXCEPT !.written = Append(@, code), !.message = message]

\* "Forward the request to the service": the handler comes to forwardRequest,
\* which runs up to its call of client.Do, or returns before it with an error
\* that the handler answers with 503; f is what forwardRequest returns.
called(h, f) ==
    IF ~f.sent
    THEN rejected(h, "LLMProxy: Error forwarding request",
                  StatusServiceUnavailable)
    ELSE [h EXCEPT !.forwarded = TRUE]

\* client.Do returning to a forwardRequest that answers 503 for every
\* response of the upstream that is not a 200.
returnedOnlyOK(h, f) ==
    IF ~f.begun \/ f.StatusCode # StatusOK
    THEN rejected(h, "LLMProxy: Error forwarding request",
                  StatusServiceUnavailable)
    ELSE [h EXCEPT !.written = Append(@, f.StatusCode), !.relayed = TRUE]

\* client.Do returns: on its error forwardRequest returns and the handler
\* answers 503; on a response forwardRequest copies the headers and calls
\* w.WriteHeader(resp.StatusCode).
returned(h, f) ==
    IF ~f.begun
    THEN rejected(h, "LLMProxy: Error forwarding request",
                  StatusServiceUnavailable)
    ELSE [h EXCEPT !.written = Append(@, f.StatusCode), !.relayed = TRUE]

\* io.Copy(w, resp.Body) returns, and forwardRequest with it: on the error
\* of io.Copy the handler calls http.Error with 503 after the
\* w.WriteHeader(resp.StatusCode) of forwardRequest.
copied(h, f) ==
    IF f.err
    THEN rejected([h EXCEPT !.body = f.Body],
                  "LLMProxy: Error forwarding request",
                  StatusServiceUnavailable)
    ELSE [h EXCEPT !.body = f.Body]

\* The pre-check with its test of ReqsPerMinute alone.
tooLargeWithoutRequests(tokens) == Config.ReqsPerMinute < 1

\* The pre-check comparing TokensPerMinute with ReqsPerMinute in the place
\* of the tokens of the request.
tooLargeComparingRequests(tokens) ==
    Config.ReqsPerMinute < 1 \/ Config.TokensPerMinute < Config.ReqsPerMinute

\* The pre-check passing every request on to the scheduler.
tooLargeNever(tokens) == FALSE

\* The pre-check of GetHandler: "the schedule is capable of handling a
\* request of this size" is false
tooLargeForScheduler(tokens) ==
    Config.ReqsPerMinute < 1 \/ Config.TokensPerMinute < tokens

\* GetHandler from ParseRequest to the send on scheduler.Requests or, for a
\* request without a model, to the call of client.Do: the handler as it
\* stands there, or as it returned.
handled(r) ==
    LET p == ParseRequest(r)
    IN  IF p.panic THEN [started EXCEPT !.fault = TRUE]
        ELSE IF p.err
        THEN rejected(started, "LLProxy: error reading request body",
                      StatusBadRequest)
        ELSE IF p.model = "" THEN called(started, forwardRequest(r))
        ELSE IF p.model \notin schedulers
        THEN rejected([started EXCEPT !.model = p.model],
                      "LLMProxy: No scheduler found for model",
                      StatusBadRequest)
        ELSE IF p.request = NoRequest
        THEN [started EXCEPT !.model = p.model, !.fault = TRUE]
        ELSE LET t == TokensForRequest(p.request)
                 h == [started EXCEPT !.model = p.model,
                                      !.tokens = t.numTokens]
             IN  IF t.err
                 THEN rejected(h,
                               "LLMProxy: could not extract tokens for request",
                               StatusBadRequest)
                 ELSE IF tooLargeForScheduler(t.numTokens)
                 THEN rejected(h, "LLProxy: Request too large for model",
                               StatusBadRequest)
                 ELSE [h EXCEPT !.sends = TRUE]

\* The status the client reads: that of the first status line written.
statusRead(h) == IF h.written = << >> THEN 0 ELSE h.written[1]

\* The handler of a new request, from ParseRequest to the place it first
\* waits at, the send on scheduler.Requests ("send") or client.Do ("do"), or
\* to its return ("done"): the record of the request as it stands there.
\* What forwardRequest returns (f, with the path the upstream receives)
\* depends on the request and the provider alone, and the record keeps it
\* for the steps of the forward.  closed is the state of responseChannel,
\* made open by make(chan Response); no statement of the program closes it.
newRequest(r) ==
    LET h == handled(r)
    IN  [r |-> r,
         f |-> forwardRequest(r),
         tokens |-> h.tokens,
         pc |-> IF h.sends THEN "send"
                ELSE IF h.forwarded THEN "do"
                ELSE "done",
         status |-> statusRead(h),
         h |-> h,
         submittedAt |-> now,
         full |-> h.sends /\ Len(Requests) >= Config.MaxQueueSize,
         seen |-> [TokenCapacity |-> TokenCapacity,
                   LastReqTime |-> LastReqTime, debited |-> debited],
         enqueued |-> 0,
         verdicts |-> << >>,
         verdictAt |-> 0,
         gone |-> FALSE,
         closed |-> FALSE]

\* A request arrives and its handler runs up to the send.  The record keeps
\* what an observer reads at that moment: whether the buffer was full (full)
\* and the token capacity, its last update and the tokens allocated (seen).
Arrive ==
    /\ running
    /\ Len(resv) < MaxReqs
    /\ now <= MaxTime
    /\ \E body \in Bodies : resv' = Append(resv, newRequest(ChatPost(body)))
    /\ UNCHANGED << main, now, Config, schedulers, peer, provider, Requests, LastReqTime,
                    RequestCapacity, TokenCapacity, sched, enqueues, debited >>

\* A request of any kind arrives at the handler of the route.
Serve ==
    /\ Len(resv) < MaxServed
    /\ now <= MaxTime
    /\ \E r \in HttpRequests : resv' = Append(resv, newRequest(r))
    /\ UNCHANGED << main, now, Config, schedulers, peer, provider, Requests, LastReqTime,
                    RequestCapacity, TokenCapacity, sched, enqueues, debited >>

\* A request of an embedding, or one beside it, arrives at the handler.
ServeDirect ==
    /\ Len(resv) < MaxServed
    /\ now <= MaxTime
    /\ \E r \in DirectRequests : resv' = Append(resv, newRequest(r))
    /\ UNCHANGED << main, now, Config, schedulers, peer, provider, Requests, LastReqTime,
                    RequestCapacity, TokenCapacity, sched, enqueues, debited >>

\* The handler returning when the client of its request goes away, as if it
\* selected on r.Context().Done().
disconnectedAndLeft(request) == [request EXCEPT !.gone = TRUE, !.pc = "done"]

\* The client of a request goes away: the server cancels r.Context(), which
\* the handler never reads, so the handler stays where it is, on the send or
\* on response := <-responseChannel.
disconnected(request) == [request EXCEPT !.gone = TRUE]

\* The client of an outstanding request disconnects.
Disconnect ==
    /\ running
    /\ \E i \in Ids :
        /\ resv[i].pc \in {"send", "await"}
        /\ ~resv[i].gone
        /\ resv' = [resv EXCEPT ![i] = disconnected(@)]
    /\ UNCHANGED << main, now, Config, schedulers, peer, provider, Requests, LastReqTime,
                    RequestCapacity, TokenCapacity, sched, enqueues, debited >>

\* The handler receives one chat completion request and comes to
\* request.TokensForRequest().
Estimate ==
    /\ running
    /\ resv = << >>
    /\ \E request \in CostRequests :
        resv' = << newRequest(ChatPost(request)) >>
    /\ UNCHANGED << main, now, Config, schedulers, peer, provider, Requests, LastReqTime,
                    RequestCapacity, TokenCapacity, sched, enqueues, debited >>

\* scheduler.Requests <- ScheduledRequest{...}: the send completes when the
\* buffer has room; the parked senders are served oldest first.
canEnqueue(i) ==
    /\ i \in Senders
    /\ \A j \in Senders : i <= j
    /\ Len(Requests) < Config.MaxQueueSize

Enqueue ==
    /\ running
    /\ \E i \in Ids :
        /\ canEnqueue(i)
        /\ Requests' = Append(Requests, i)
        /\ enqueues' = enqueues + 1
        /\ resv' = [resv EXCEPT ![i].pc = "await",
                                ![i].enqueued = enqueues + 1]
    /\ UNCHANGED << main, now, Config, schedulers, peer, provider, LastReqTime, RequestCapacity, TokenCapacity,
                    sched, debited >>

\* GetHandler from response := <-responseChannel to its return after the
\* http.Error of RateLimit or, on the other responses, to forwardRequest and
\* its call of client.Do: the branch of RequestTooLarge has its http.Error
\* and no return.  f is what forwardRequest returns for the request
responded(h, f, response) ==
    IF response = RateLimit
    THEN rejected(h, "LLMProxy: RateLimit exceeded for model",
                  StatusTooManyRequests)
    ELSE IF response = RequestTooLarge
    THEN called(rejected(h, "LLProxy: Request too large for model",
                         StatusBadRequest), f)
    ELSE called(h, f)

\* The record of a request whose handler receives response from its channel:
\* the handler holds the response ("answered") and has written nothing for
\* it.
answeredWith(request, response) ==
    [request EXCEPT !.verdicts = Append(@, response),
                    !.verdictAt = now,
                    !.pc = "answered"]

\* The handler that holds its response goes on, in its own goroutine, from
\* response := <-responseChannel: it answers 429 and returns, or it comes to
\* forwardRequest and to client.Do, after the 400 of RequestTooLarge as
\* well.  The handlers are those of either scheduler.
Handle ==
    /\ running
    /\ \E s \in {"own", "peer"} :
        LET taken == IF s = "own" THEN resv ELSE peer.resv
        IN  \E i \in DOMAIN taken :
                LET h == responded(taken[i].h, taken[i].f,
                                   taken[i].verdicts[1])
                    request == [taken[i] EXCEPT
                                   !.h = h,
                                   !.status = statusRead(h),
                                   !.pc = IF h.forwarded THEN "do"
                                          ELSE "done"]
                IN  /\ taken[i].pc = "answered"
                    /\ resv' = IF s = "own"
                               THEN [resv EXCEPT ![i] = request]
                               ELSE resv
                    /\ peer' = IF s = "peer"
                               THEN [peer EXCEPT !.resv[i] = request]
                               ELSE peer
    /\ UNCHANGED << main, now, Config, schedulers, provider, Requests,
                    LastReqTime, RequestCapacity, TokenCapacity, sched,
                    enqueues, debited >>

\* resp, err := client.Do(req) returns to the handler that waits in it, and
\* forwardRequest goes on to w.WriteHeader and to io.Copy, or returns the
\* error.
ClientDo ==
    /\ running
    /\ \E s \in {"own", "peer"} :
        LET taken == IF s = "own" THEN resv ELSE peer.resv
        IN  \E i \in DOMAIN taken :
                LET h == returned(taken[i].h, taken[i].f)
                    request == [taken[i] EXCEPT
                                   !.h = h,
                                   !.status = statusRead(h),
                                   !.pc = IF taken[i].f.begun THEN "copy"
                                          ELSE "done"]
                IN  /\ taken[i].pc = "do"
                    /\ resv' = IF s = "own"
                               THEN [resv EXCEPT ![i] = request]
                               ELSE resv
                    /\ peer' = IF s = "peer"
                               THEN [peer EXCEPT !.resv[i] = request]
                               ELSE peer
    /\ UNCHANGED << main, now, Config, schedulers, provider, Requests,
                    LastReqTime, RequestCapacity, TokenCapacity, sched,
                    enqueues, debited >>

\* io.Copy(w, resp.Body) returns to the handler that waits in it, and the
\* handler comes to its end.
Copy ==
    /\ running
    /\ \E s \in {"own", "peer"} :
        LET taken == IF s = "own" THEN resv ELSE peer.resv
        IN  \E i \in DOMAIN taken :
                LET h == copied(taken[i].h, taken[i].f)
                    request == [taken[i] EXCEPT
                                   !.h = h,
                                   !.status = statusRead(h),
                                   !.pc = "done"]
                IN  /\ taken[i].pc = "copy"
                    /\ resv' = IF s = "own"
                               THEN [resv EXCEPT ![i] = request]
                               ELSE resv
                    /\ peer' = IF s = "peer"
                               THEN [peer EXCEPT !.resv[i] = request]
                               ELSE peer
    /\ UNCHANGED << main, now, Config, schedulers, provider, Requests,
                    LastReqTime, RequestCapacity, TokenCapacity, sched,
                    enqueues, debited >>

\* The handlers past the scheduler, each in its own goroutine.
forward == Handle \/ ClientDo \/ Copy

\* ------------------------------------------------------------ the scheduler

\* run in its select, no request in hand, the timer of time.After started now
Parked == [pc |-> "select", request |-> 0, response |-> "none",
           wakeAt |-> 0, timer |-> now]

\* run with the test of ReqsPerMinute and TokensPerMinute as < 1.
tooLowBelowOne == Config.ReqsPerMinute < 1 \/ Config.TokensPerMinute < 1

\* "Don't allow startup if a config is too low for the scheduler to operate"
tooLow == Config.ReqsPerMinute <= 1 \/ Config.TokensPerMinute <= 1

\* The goroutine of go schedulers[name].run() comes to run: the two tests of
\* the Config, the Fatalw of a Config that is too low, and the entry of the
\* loop otherwise.
Start ==
    /\ sched.pc = "start"
    /\ sched' = IF tooLow THEN [sched EXCEPT !.pc = "fatal"] ELSE Parked
    /\ UNCHANGED << main, now, Config, schedulers, peer, provider, Requests, LastReqTime,
                    RequestCapacity, TokenCapacity, resv, enqueues, debited >>

\* run, the select: a request is received from scheduler.Requests.  A request
\* that is too large is answered at once; the others go to waitForCapacity.
\* A receive that takes the newest element of the buffer.
receivedNewest(q) ==
    [request |-> q[Len(q)], rest |-> SubSeq(q, 1, Len(q) - 1)]

\* req := <-scheduler.Requests on the buffer q: the oldest element
received(q) == [request |-> Head(q), rest |-> Tail(q)]

Receive ==
    /\ sched.pc = "select"
    /\ Requests # << >>
    /\ LET i == received(Requests).request
       IN  sched' =
               IF resv[i].tokens > Config.TokensPerMinute
               THEN [sched EXCEPT !.pc = "respond", !.request = i,
                                  !.response = RequestTooLarge]
               ELSE [sched EXCEPT !.pc = "wait", !.request = i]
    /\ Requests' = received(Requests).rest
    /\ UNCHANGED << main, now, Config, schedulers, peer, provider, LastReqTime, RequestCapacity, TokenCapacity,
                    resv, enqueues, debited >>

\* run, the select: no request after 2 seconds; update capacity, then resume
\* waiting.
IdleTimeout ==
    /\ sched.pc = "select"
    /\ now >= sched.timer + IdleSeconds
    /\ LET u == updateCapacity(TokenCapacity, RequestCapacity, LastReqTime, now)
       IN  /\ TokenCapacity' = u.TokenCapacity
           /\ RequestCapacity' = u.RequestCapacity
           /\ LastReqTime' = u.LastReqTime
    /\ sched' = [sched EXCEPT !.timer = now]
    /\ UNCHANGED << main, now, Config, schedulers, peer, provider, Requests, resv, enqueues, debited >>

\* run allocates capacity to the request (the two -= after waitForCapacity).
allocate(u, tokens) ==
    [TokenCapacity |-> u.TokenCapacity - Units(tokens),
     RequestCapacity |-> u.RequestCapacity - Units(1),
     LastReqTime |-> u.LastReqTime]

\* One turn of the loop of waitForCapacity, entered from run or when
\* time.Sleep(sleepTime) returns.  With capacity it returns, and run allocates
\* the capacity to the request; without, it sleeps.
waitForCapacity ==
    /\ sched.pc = "wait" \/ (sched.pc = "sleep" /\ now >= sched.wakeAt)
    /\ LET tokens == resv[sched.request].tokens
           u == updateCapacity(TokenCapacity, RequestCapacity, LastReqTime, now)
           ok == haveCapacity(u.TokenCapacity, u.RequestCapacity, tokens)
           v == IF ok THEN allocate(u, tokens) ELSE u
       IN  /\ TokenCapacity' = v.TokenCapacity
           /\ RequestCapacity' = v.RequestCapacity
           /\ LastReqTime' = v.LastReqTime
           /\ sched' =
                  IF ok
                  THEN [sched EXCEPT !.pc = "respond", !.response = Ready]
                  ELSE [sched EXCEPT
                            !.pc = "sleep",
                            !.wakeAt =
                                wakeTime(now,
                                         sleepTime(u.TokenCapacity,
                                                   u.RequestCapacity, tokens))]
           /\ debited' = IF ok THEN debited + tokens ELSE debited
    /\ UNCHANGED << main, now, Config, schedulers, peer, provider, Requests, resv, enqueues >>

\* run going round with the request it has answered still in hand.
afterRespondSameRequest == [sched EXCEPT !.pc = "wait"]

\* run sending a second response on the channel of the request it has
\* answered.
afterRespondTwice == [sched EXCEPT !.pc = "respond"]

\* The state of run after request.ResponseChannel <- response: back at the
\* top of the loop, in the select, with a new timer.
afterRespond == Parked

\* request.ResponseChannel <- response meets response := <-responseChannel
\* of the handler: the channel is unbuffered, so the two happen together.
\* run goes back to its select and the handler goes on by itself.
Respond ==
    /\ sched.pc = "respond"
    /\ resv[sched.request].pc = "await"
    /\ resv' = [resv EXCEPT
                   ![sched.request] = answeredWith(@, sched.response)]
    /\ sched' = afterRespond
    /\ UNCHANGED << main, now, Config, schedulers, peer, provider, Requests, LastReqTime, RequestCapacity,
                    TokenCapacity, enqueues, debited >>

\* ---------------------------------------------------------------- the clock

\* Reservations created and not yet answered.
Outstanding == { i \in Ids : resv[i].pc \in {"send", "await"} }

\* Some goroutine is able to run: run, a handler at its send, a handler
\* that holds its response and, Do and the Read of the Body of the
\* MockHttpClient returning without a wait, a handler in its forward.
Busy ==
    \/ sched.pc \in {"start", "wait", "respond"}
    \/ sched.pc = "select" /\ Requests # << >>
    \/ sched.pc = "select" /\ now >= sched.timer + IdleSeconds
    \/ sched.pc = "sleep" /\ now >= sched.wakeAt
    \/ \E i \in Ids : canEnqueue(i)
    \/ \E i \in Ids : resv[i].pc = "answered"
    \/ /\ provider.client = "mock"
       /\ \E i \in Ids : resv[i].pc \in {"do", "copy"}

\* Every outstanding reservation is answered well before Horizon.
Horizon == MaxTime + (MaxReqs + 1) * SecondsPerMinute

Tick ==
    /\ running
    /\ ~Busy
    /\ now < MaxTime + IdleSeconds \/ Outstanding # {}
    /\ now < Horizon
    /\ now' = now + 1
    /\ UNCHANGED << main, Config, schedulers, peer, provider, Requests, LastReqTime, RequestCapacity,
                    TokenCapacity, sched, resv, enqueues, debited >>

\* ---------------------------------------------------------------- config.go

\* A configuration file: the keys of the JSON document, each << >> when the
\* document does not have it and << v >> when it has it with the value v.
\* routes and models are functions of the names they list.  maxQueueWait is
\* in tenths of a second.
Absent == << >>
Present(v) == << v >>

ModelFiles ==
    { [maxQueueSize |-> Present(100), maxQueueWait |-> Present(15),
       rpm |-> Present(1000), tpm |-> Present(10000),
       cpm |-> Present(100000)],
      [maxQueueSize |-> Present(2), maxQueueWait |-> Absent,
       rpm |-> Present(2), tpm |-> Present(60), cpm |-> Absent] }

RouteFiles ==
    { [forward |-> Present("http://forward1.com"),
       provider |-> Present("provider1"),
       models |-> Present([name \in {"model1"} |-> model])] :
        model \in ModelFiles }
    \cup { [forward |-> Absent, provider |-> Present("openai"),
            models |-> Absent] }

ConfigFiles ==
    [port : {Absent, Present(0), Present(9090)},
     healthPort : {Absent, Present(0), Present(9091)},
     level : {Absent, Present(""), Present("debug")},
     type : {Absent, Present(""), Present("json")},
     routes : {Absent}
         \cup { Present([route \in {"/route1"} |-> r]) : r \in RouteFiles }]

\* What json.Unmarshal leaves in a field: the value of the key, and the zero
\* value of the field when the document has no such key.
decoded(key, zero) == IF key = Absent THEN zero ELSE key[1]

ModelConfig(model) ==
    [MaxQueueSize |-> decoded(model.maxQueueSize, 0),
     MaxQueueWait |-> decoded(model.maxQueueWait, 0),
     ReqsPerMinute |-> decoded(model.rpm, 0),
     TokensPerMinute |-> decoded(model.tpm, 0),
     CharsPerMinute |-> decoded(model.cpm, 0)]

\* json.Unmarshal into map[string]ModelConfig: nil, a map of no keys,
\* without the key.
Models(key) ==
    IF key = Absent THEN << >>
    ELSE [name \in DOMAIN key[1] |-> ModelConfig(key[1][name])]

RouteConfig(route) ==
    [Forward |-> decoded(route.forward, ""),
     Provider |-> decoded(route.provider, ""),
     Models |-> Models(route.models)]

\* json.Unmarshal into map[string]RouteConfig
Routes(key) ==
    IF key = Absent THEN << >>
    ELSE [name \in DOMAIN key[1] |-> RouteConfig(key[1][name])]

\* json.Unmarshal(data, &config)
Unmarshal(file) ==
    [Application |-> [Port |-> decoded(file.port, 0),
                      HealthPort |-> decoded(file.healthPort, 0)],
     Logging |-> [Level |-> decoded(file.level, ""),
                  Type |-> decoded(file.type, "")],
     Routes |-> Routes(file.routes)]

\* LoadConfig with the default of Port for HealthPort as well.
LoadConfigOnePort(file) ==
    LET config == Unmarshal(file)
    IN  [config EXCEPT
            !.Logging.Level = IF @ = "" THEN "info" ELSE @,
            !.Logging.Type = IF @ = "" THEN "console" ELSE @,
            !.Application.Port = IF @ = 0 THEN DefaultPort ELSE @,
            !.Application.HealthPort = IF @ = 0 THEN DefaultPort ELSE @]

\* LoadConfig on a file that is read and parses: "Set default values"
LoadConfig(file) ==
    LET config == Unmarshal(file)
    IN  [config EXCEPT
            !.Logging.Level = IF @ = "" THEN "info" ELSE @,
            !.Logging.Type = IF @ = "" THEN "console" ELSE @,
            !.Application.Port = IF @ = 0 THEN DefaultPort ELSE @,
            !.Application.HealthPort = IF @ = 0 THEN DefaultHealthPort ELSE @]

\* config := LoadConfig(*configFilePath) of main
Load ==
    /\ running
    /\ main.file # << >>
    /\ main.config = << >>
    /\ main' = [main EXCEPT !.config = << LoadConfig(main.file[1]) >>]
    /\ UNCHANGED << now, Config, schedulers, peer, provider, Requests, LastReqTime,
                    RequestCapacity, TokenCapacity, sched, resv, enqueues,
                    debited >>

\* ------------------------------------------------- main.go and health.go

\* main once it waits on <-serverShutdown: isReady as it is declared, no
\* signal on sig, the server listening and the goroutine of server.Shutdown
\* not started.  signalled tells whether the process was ever sent a signal,
\* and probes lists the answers of /readyz with what held when each was
\* given.
\* file and config are the configuration file main is started on and what
\* LoadConfig returned for it, << >> where they are not followed.
launched ==
    [isReady |-> TRUE, sig |-> << >>, signalReceived |-> FALSE,
     shutdown |-> "none", server |-> "serving", exited |-> FALSE,
     signalled |-> FALSE, probes |-> << >>, file |-> << >>,
     config |-> << >>]

\* The process is sent a signal: signal.Notify relays it to sig without
\* blocking, and drops it when the buffer of sig is full.
notified(m, s) ==
    [m EXCEPT !.sig = IF Len(@) < SigBuffer THEN Append(@, s) ELSE @,
              !.signalled = TRUE]

Signal ==
    /\ running
    /\ \E s \in {"SIGINT", "SIGTERM"} : main' = notified(main, s)
    /\ UNCHANGED << now, Config, schedulers, peer, provider, Requests, LastReqTime,
                    RequestCapacity, TokenCapacity, sched, resv, enqueues,
                    debited >>

\* A HealthShutdown that leaves isReady as it is.
HealthShutdownLater(m) == m

\* HealthShutdown: isReady.Set(false)
HealthShutdown(m) == [m EXCEPT !.isReady = FALSE]

\* One turn of for sigName := range sig, up to signalReceived = true.  A
\* second signal is the Fatal "Second signal received".  The goroutine takes
\* the next signal once it is through the body of the loop.
ReceiveSignal ==
    /\ running
    /\ main.sig # << >>
    /\ main.shutdown \notin {"received", "notReady"}
    /\ main' =
           IF main.signalReceived
           THEN [main EXCEPT !.sig = Tail(@), !.exited = TRUE]
           ELSE [main EXCEPT !.sig = Tail(@), !.signalReceived = TRUE,
                             !.shutdown = "received"]
    /\ UNCHANGED << now, Config, schedulers, peer, provider, Requests, LastReqTime,
                    RequestCapacity, TokenCapacity, sched, resv, enqueues,
                    debited >>

\* The turn for the first signal goes on: HealthShutdown() marks the server
\* as not ready, isReady.Set(false) taking and releasing the lock of isReady.
MarkNotReady ==
    /\ running
    /\ main.shutdown = "received"
    /\ main' = [HealthShutdown(main) EXCEPT !.shutdown = "notReady"]
    /\ UNCHANGED << now, Config, schedulers, peer, provider, Requests, LastReqTime,
                    RequestCapacity, TokenCapacity, sched, resv, enqueues,
                    debited >>

\* The end of the turn: context.WithTimeout and the go statement that starts
\* the goroutine of server.Shutdown; the goroutine of the signals is back at
\* range sig.
Spawn ==
    /\ running
    /\ main.shutdown = "notReady"
    /\ main' = [main EXCEPT !.shutdown = "spawned"]
    /\ UNCHANGED << now, Config, schedulers, peer, provider, Requests, LastReqTime,
                    RequestCapacity, TokenCapacity, sched, resv, enqueues,
                    debited >>

\* server.Shutdown(ctx) is called: the server stops listening and drains.
Shutdown ==
    /\ running
    /\ main.shutdown = "spawned"
    /\ main' = [main EXCEPT !.shutdown = "draining", !.server = "draining"]
    /\ UNCHANGED << now, Config, schedulers, peer, provider, Requests, LastReqTime,
                    RequestCapacity, TokenCapacity, sched, resv, enqueues,
                    debited >>

\* server.Shutdown(ctx) returns: the connections are idle, or the 45 seconds
\* of ctx are over.
Drained ==
    /\ running
    /\ main.shutdown = "draining"
    /\ main' = [main EXCEPT !.shutdown = "done", !.server = "closed"]
    /\ UNCHANGED << now, Config, schedulers, peer, provider, Requests, LastReqTime,
                    RequestCapacity, TokenCapacity, sched, resv, enqueues,
                    debited >>

\* serverShutdown <- struct{}{} meets <-serverShutdown, and main returns.
Exit ==
    /\ running
    /\ main.shutdown = "done"
    /\ main' = [main EXCEPT !.exited = TRUE]
    /\ UNCHANGED << now, Config, schedulers, peer, provider, Requests, LastReqTime,
                    RequestCapacity, TokenCapacity, sched, resv, enqueues,
                    debited >>

\* The handler of /readyz: what it writes, beside what held as it read
\* isReady.
readyz(m) ==
    [code |-> IF m.isReady THEN StatusOK ELSE StatusServiceUnavailable,
     body |-> IF m.isReady THEN "OK" ELSE "Not Ready",
     signalled |-> m.signalled,
     signalReceived |-> m.signalReceived,
     server |-> m.server]

\* GET /readyz on the health server
getReadyZ ==
    /\ running
    /\ Len(main.probes) < MaxProbes
    /\ main' = [main EXCEPT !.probes = Append(@, readyz(main))]
    /\ UNCHANGED << now, Config, schedulers, peer, provider, Requests, LastReqTime,
                    RequestCapacity, TokenCapacity, sched, resv, enqueues,
                    debited >>

\* ------------------------------------------------------- the specification

\* initSchedulers: the Scheduler of a second model as it is built, with the
\* ModelConfig of Config, run parked in its select; resv are the requests
\* its handlers took, enqueues the sends on its Requests completed.
another ==
    [Requests |-> << >>,
     LastReqTime |-> 0,
     RequestCapacity |-> Units(Config.ReqsPerMinute),
     TokenCapacity |-> Units(Config.TokensPerMinute),
     sched |-> [pc |-> "select", request |-> 0, response |-> "none",
                wakeAt |-> 0, timer |-> 0],
     resv |-> << >>,
     enqueues |-> 0]

\* initSchedulers: the scheduler as it is built, and run parked in its select
constructed ==
    /\ now = 0
    /\ Config \in Configs
    /\ Requests = << >>
    /\ LastReqTime = 0
    /\ RequestCapacity = Units(Config.ReqsPerMinute)
    /\ TokenCapacity = Units(Config.TokensPerMinute)
    /\ sched = [pc |-> "select", request |-> 0, response |-> "none",
                wakeAt |-> 0, timer |-> 0]
    /\ resv = << >>
    /\ enqueues = 0
    /\ debited = 0
    /\ peer = another

\* The scheduler built, in the provider of the tests
built == constructed /\ provider = tested

\* NewOpenAI on a route whose only model is that of the scheduler
Init == built /\ schedulers = {TEST_MODEL} /\ main = launched

run == Receive \/ IdleTimeout \/ waitForCapacity \/ Respond

Next == Arrive \/ Enqueue \/ run \/ forward \/ Tick

Spec == Init /\ [][Next]_vars

\* The requests arrive in one burst, before the clock first advances.
ArriveAtOnce == now = 0 /\ Arrive

NextBurst == ArriveAtOnce \/ Enqueue \/ run \/ forward \/ Tick

\* The goroutine of run is scheduled, the handlers are, and time passes.
FairSpec ==
    Init /\ [][NextBurst]_vars
        /\ WF_vars(run) /\ WF_vars(Enqueue) /\ WF_vars(forward)
        /\ WF_vars(Tick)

NextRoute == Serve \/ Enqueue \/ run \/ forward \/ Tick

\* The handler of the route serving requests of every kind.
RouteSpec == Init /\ [][NextRoute]_vars

\* initSchedulers with any ModelConfig, up to go schedulers[name].run(): the
\* goroutine of run has not been scheduled yet.
InitStart ==
    /\ now = 0
    /\ Config \in StartConfigs
    /\ schedulers = {TEST_MODEL}
    /\ Requests = << >>
    /\ LastReqTime = 0
    /\ RequestCapacity = Units(Config.ReqsPerMinute)
    /\ TokenCapacity = Units(Config.TokensPerMinute)
    /\ sched = [pc |-> "start", request |-> 0, response |-> "none",
                wakeAt |-> 0, timer |-> 0]
    /\ resv = << >>
    /\ enqueues = 0
    /\ debited = 0
    /\ peer = another
    /\ provider = tested
    /\ main = launched

NextStart == Start \/ ArriveAtOnce \/ Enqueue \/ run \/ forward \/ Tick

\* The process from initSchedulers on, the handlers serving requests before
\* and after the goroutine of run is first scheduled.
StartSpec == InitStart /\ [][NextStart]_vars

\* NewOpenAI with any client and any forward.
InitForward ==
    /\ constructed
    /\ provider \in Providers
    /\ schedulers = {TEST_MODEL}
    /\ main = launched

\* The scheduler and its handlers before an upstream that answers, refuses
\* the connection or goes away while its response is copied.
ForwardSpec == InitForward /\ [][NextBurst]_vars

\* NewOpenAI on either route, that of the model of the scheduler alone and
\* that with a model for the images.
InitDirect ==
    /\ built
    /\ schedulers \in { {TEST_MODEL}, {TEST_MODEL, "DALL-E 2"} }
    /\ main = launched

NextDirect == ServeDirect \/ Enqueue \/ run \/ forward \/ Tick

\* The handler of either route on the requests of embeddings and images.
DirectSpec == InitDirect /\ [][NextDirect]_vars

NextDisconnect ==
    ArriveAtOnce \/ Disconnect \/ Enqueue \/ run \/ forward \/ Tick

\* The scheduler and its handlers, the clients of outstanding requests going
\* away at any moment.
DisconnectSpec == Init /\ [][NextDisconnect]_vars

NextShutdown ==
    \/ Signal \/ ReceiveSignal \/ MarkNotReady \/ Spawn \/ Shutdown
    \/ Drained \/ Exit \/ getReadyZ

\* main from its wait on <-serverShutdown on: the signals, the shutdown of
\* the server and the health server answering /readyz.
ShutdownSpec == Init /\ [][NextShutdown]_vars

\* NewOpenAI on a route that has a model for every name of CostModels.
InitCost == built /\ schedulers = CostModels /\ main = launched

\* main is started on a configuration file.
InitConfig ==
    /\ built
    /\ schedulers = {TEST_MODEL}
    /\ \E file \in ConfigFiles : main = [launched EXCEPT !.file = << file >>]

NextConfig == Load

\* LoadConfig on the files of ConfigFiles.
ConfigSpec == InitConfig /\ [][NextConfig]_vars

NextCost == Estimate

\* TokensForRequest on the chat completion requests of CostRequests.
CostSpec == InitCost /\ [][NextCost]_vars

\* ----------------------------------------------------- a second scheduler

\* The second model of the route in the README, with a scheduler of its own.
PEER_MODEL == "gpt-4"

\* The variables but peer.
own ==
    << now, Config, schedulers, Requests, LastReqTime, RequestCapacity,
       TokenCapacity, sched, resv, enqueues, debited, main, provider >>

\* The lookup answering with the scheduler of TEST_MODEL for every model.
schedulerOfAnyModel(model) == TEST_MODEL

\* scheduler, ok := o.schedulers[model]: the key of the scheduler found
schedulerOf(model) == model

\* A chat completion request for one of the two models arrives, in a burst
\* at the start, and its handler runs up to the send on the Requests of the
\* scheduler it found.  The record of a request whose handler came to the
\* second scheduler keeps what it read there at that moment.
ArrivePair ==
    /\ running
    /\ now = 0
    /\ \E model \in {TEST_MODEL, PEER_MODEL} :
        LET body == [ChatRequest(OneMessage, ToInt64(0), ToInt64(23))
                         EXCEPT !.Model = model]
            request == newRequest(ChatPost(body))
            atPeer ==
                [request EXCEPT
                     !.full = request.h.sends
                                  /\ Len(peer.Requests) >= Config.MaxQueueSize,
                     !.seen = [TokenCapacity |-> peer.TokenCapacity,
                               LastReqTime |-> peer.LastReqTime,
                               debited |-> 0]]
        IN  IF schedulerOf(request.h.model) = TEST_MODEL
            THEN /\ Len(resv) < MaxReqs
                 /\ resv' = Append(resv, request)
                 /\ UNCHANGED peer
            ELSE /\ Len(peer.resv) < MaxPeerReqs
                 /\ peer' = [peer EXCEPT !.resv = Append(@, atPeer)]
                 /\ UNCHANGED resv
    /\ UNCHANGED << main, now, Config, schedulers, provider, Requests,
                    LastReqTime, RequestCapacity, TokenCapacity, sched,
                    enqueues, debited >>

\* The send on the Requests of the second scheduler completes when the
\* buffer has room; the handlers parked on it are served oldest first.
canEnqueueAtPeer(i) ==
    /\ peer.resv[i].pc = "send"
    /\ \A j \in DOMAIN peer.resv : peer.resv[j].pc = "send" => i <= j
    /\ Len(peer.Requests) < Config.MaxQueueSize

\* scheduler.Requests <- ScheduledRequest{...} on the second scheduler
PeerEnqueue ==
    /\ running
    /\ \E i \in DOMAIN peer.resv :
        /\ canEnqueueAtPeer(i)
        /\ peer' = [peer EXCEPT
                        !.Requests = Append(@, i),
                        !.enqueues = @ + 1,
                        !.resv[i].pc = "await",
                        !.resv[i].enqueued = peer.enqueues + 1]
    /\ UNCHANGED own

\* run of the second scheduler, the select: a request is received.
PeerReceive ==
    /\ peer.sched.pc = "select"
    /\ peer.Requests # << >>
    /\ LET i == received(peer.Requests).request
       IN  peer' = [peer EXCEPT
                        !.Requests = received(peer.Requests).rest,
                        !.sched =
                            IF peer.resv[i].tokens > Config.TokensPerMinute
                            THEN [@ EXCEPT !.pc = "respond", !.request = i,
                                           !.response = RequestTooLarge]
                            ELSE [@ EXCEPT !.pc = "wait", !.request = i]]
    /\ UNCHANGED own

\* run of the second scheduler, the select: no request after 2 seconds.
PeerIdleTimeout ==
    /\ peer.sched.pc = "select"
    /\ now >= peer.sched.timer + IdleSeconds
    /\ LET u == updateCapacity(peer.TokenCapacity, peer.RequestCapacity,
                               peer.LastReqTime, now)
       IN  peer' = [peer EXCEPT
                        !.TokenCapacity = u.TokenCapacity,
                        !.RequestCapacity = u.RequestCapacity,
                        !.LastReqTime = u.LastReqTime,
                        !.sched.timer = now]
    /\ UNCHANGED own

\* One turn of the loop of waitForCapacity of the second scheduler.
PeerWaitForCapacity ==
    /\ \/ peer.sched.pc = "wait"
       \/ peer.sched.pc = "sleep" /\ now >= peer.sched.wakeAt
    /\ LET tokens == peer.resv[peer.sched.request].tokens
           u == updateCapacity(peer.TokenCapacity, peer.RequestCapacity,
                               peer.LastReqTime, now)
           ok == haveCapacity(u.TokenCapacity, u.RequestCapacity, tokens)
           v == IF ok THEN allocate(u, tokens) ELSE u
       IN  peer' = [peer EXCEPT
                        !.TokenCapacity = v.TokenCapacity,
                        !.RequestCapacity = v.RequestCapacity,
                        !.LastReqTime = v.LastReqTime,
                        !.sched =
                            IF ok
                            THEN [@ EXCEPT !.pc = "respond",
                                           !.response = Ready]
                            ELSE [@ EXCEPT
                                      !.pc = "sleep",
                                      !.wakeAt =
                                          wakeTime(now,
                                                   sleepTime(u.TokenCapacity,
                                                             u.RequestCapacity,
                                                             tokens))]]
    /\ UNCHANGED own

\* request.ResponseChannel <- response of the second scheduler meets the
\* receive of the handler, which goes on by itself.
PeerRespond ==
    /\ peer.sched.pc = "respond"
    /\ peer.resv[peer.sched.request].pc = "await"
    /\ peer' = [peer EXCEPT
                    !.resv[peer.sched.request] =
                        answeredWith(@, peer.sched.response),
                    !.sched = Parked]
    /\ UNCHANGED own

\* Some goroutine of the second scheduler or of its handlers is able to run.
PeerBusy ==
    \/ peer.sched.pc \in {"wait", "respond"}
    \/ peer.sched.pc = "select" /\ peer.Requests # << >>
    \/ peer.sched.pc = "select" /\ now >= peer.sched.timer + IdleSeconds
    \/ peer.sched.pc = "sleep" /\ now >= peer.sched.wakeAt
    \/ \E i \in DOMAIN peer.resv : canEnqueueAtPeer(i)
    \/ \E i \in DOMAIN peer.resv : peer.resv[i].pc = "answered"
    \/ /\ provider.client = "mock"
       /\ \E i \in DOMAIN peer.resv : peer.resv[i].pc \in {"do", "copy"}

\* The clock of the process with the two schedulers.
TickPair ==
    /\ running
    /\ ~Busy
    /\ ~PeerBusy
    /\ \/ now < MaxTime + IdleSeconds
       \/ Outstanding # {}
       \/ \E i \in DOMAIN peer.resv : peer.resv[i].pc \in {"send", "await"}
    /\ now < Horizon
    /\ now' = now + 1
    /\ UNCHANGED << main, Config, schedulers, peer, provider, Requests, LastReqTime,
                    RequestCapacity, TokenCapacity, sched, resv, enqueues,
                    debited >>

\* NewOpenAI on a route with the two models, each with the ModelConfig of
\* Config.
InitPair ==
    /\ built
    /\ schedulers = {TEST_MODEL, PEER_MODEL}
    /\ main = launched

NextPair ==
    \/ ArrivePair \/ Enqueue \/ run \/ forward \/ TickPair
    \/ PeerEnqueue \/ PeerReceive \/ PeerIdleTimeout
    \/ PeerWaitForCapacity \/ PeerRespond

PairSpec == InitPair /\ [][NextPair]_vars

\* ------------------------------------------------------------------ claims

answered(i) == resv[i].verdicts # << >>
admitted(i) == answered(i) /\ resv[i].verdicts[1] = Ready
deadline(i) == resv[i].submittedAt + Config.MaxQueueWait

\* C1: no reservation ever receives more than one Verdict: at most one value
\* is sent on the ResponseChannel of a reservation, and run is never at the
\* send of a response for a reservation that already has one.
AtMostOneVerdict ==
    /\ \A i \in Ids : Len(resv[i].verdicts) <= 1
    /\ sched.pc = "respond" => ~answered(sched.request)

\* Two reservations have been answered, one after the other, and run is back
\* in its select.
TwoAnswered ==
    /\ sched.pc = "select"
    /\ \E i, j \in Ids : i # j /\ answered(i) /\ answered(j)

\* C2: once a reservation is enqueued on scheduler.Requests, a Verdict is
\* eventually produced for it, whatever is ahead of it in the queue (the
\* goroutines being scheduled and time passing): from a state where
\* enqueued reservations lack their Verdict, the scheduler comes to one
\* where every enqueued reservation has its own.  A reservation once
\* enqueued stays so, and the one that lacked its Verdict is among them.
EnqueuedIsAnswered ==
    (\E i \in Ids : resv[i].enqueued > 0 /\ ~answered(i))
        ~> (\A i \in Ids : resv[i].enqueued > 0 => answered(i))

\* A reservation that was enqueued behind another one and had to wait has
\* been answered.
WaitedBehindAndAnswered ==
    \E i \in Ids :
        /\ resv[i].enqueued > 1
        /\ answered(i)
        /\ resv[i].verdictAt > resv[i].submittedAt

\* C3: wait timeout: an enqueued reservation that has not been admitted by
\* submittedAt + MaxQueueWait receives RateLimit, so every answer given after
\* the deadline is RateLimit and none is a late Ready.
LateAnswerIsRateLimit ==
    \A i \in Ids :
        (resv[i].enqueued > 0 /\ answered(i) /\ resv[i].verdictAt > deadline(i))
            => resv[i].verdicts[1] = RateLimit

\* C4: bounded wait: no reservation is answered, or still waits for its
\* answer, later than submittedAt + MaxQueueWait + one polling period of 2 s.
BoundedWait ==
    \A i \in Ids :
        /\ answered(i) => resv[i].verdictAt <= deadline(i) + IdleSeconds
        /\ i \in Outstanding => now <= deadline(i) + IdleSeconds

\* C5: the offer to the arrivals buffer does not block: a request whose
\* handler finds MaxQueueSize reservations in the buffer is answered 429 at
\* once and is never enqueued, so its handler is never parked on the send.
OfferFailsWhenFull ==
    \A i \in Ids :
        resv[i].full =>
            /\ resv[i].pc = "done"
            /\ resv[i].status = StatusTooManyRequests
            /\ resv[i].enqueued = 0

\* C6: in every reachable state 0 <= RequestCapacity <= ReqsPerMinute and
\* 0 <= TokenCapacity <= TokensPerMinute.
CapacityWithinBounds ==
    /\ 0 <= RequestCapacity
    /\ RequestCapacity <= Units(Config.ReqsPerMinute)
    /\ 0 <= TokenCapacity
    /\ TokenCapacity <= Units(Config.TokensPerMinute)

\* The capacities of the replenishment rule at the present clock reading.
freshTokens ==
    Min(Units(Config.TokensPerMinute),
        TokenCapacity + (now - LastReqTime) * Config.TokensPerMinute)
freshRequests ==
    Min(Units(Config.ReqsPerMinute),
        RequestCapacity + (now - LastReqTime) * Config.ReqsPerMinute)

\* C7: run decides on Ready only when the freshly replenished capacity holds
\* one request and the required tokens, that step debits exactly 1 and
\* exactly the required tokens, and from there to the send of Ready the
\* capacities and the reservation in hand do not change.
ReadyDebitsFreshCapacity ==
    [][ /\ (sched'.response = Ready /\ sched.response # Ready) =>
            /\ sched'.request = sched.request
            /\ freshRequests >= Units(1)
            /\ freshTokens >= Units(resv[sched.request].tokens)
            /\ RequestCapacity' = freshRequests - Units(1)
            /\ TokenCapacity' = freshTokens - Units(resv[sched.request].tokens)
        /\ (sched.pc = "respond" /\ sched.response = Ready) =>
            /\ RequestCapacity' = RequestCapacity
            /\ TokenCapacity' = TokenCapacity
            /\ sched'.request # sched.request =>
                   resv'[sched.request].verdicts = << Ready >> ]_vars

\* A reservation has been admitted after run slept for its capacity.
AdmittedAfterWaiting ==
    \E i \in Ids : admitted(i) /\ resv[i].verdictAt > resv[i].submittedAt

\* C8: within the scheduler Verdicts are delivered in the order the
\* reservations were enqueued: while a reservation is unanswered no
\* reservation enqueued after it has an answer.
VerdictsInEnqueueOrder ==
    \A i, j \in Ids :
        (resv[i].enqueued > 0 /\ resv[i].enqueued < resv[j].enqueued
            /\ answered(j))
            => (answered(i) /\ resv[i].verdictAt <= resv[j].verdictAt)

\* run sleeps for the capacity of the reservation in hand while a later
\* reservation, whose tokens the present capacity would cover, sits in the
\* buffer unanswered.
HeadOfLineBlocks ==
    /\ sched.pc = "sleep"
    /\ \E k \in 1 .. Len(Requests) :
        /\ ~answered(Requests[k])
        /\ haveCapacity(freshTokens, freshRequests, resv[Requests[k]].tokens)

\* The tokens allocated since the arrival of request i.
tokensSince(i) == debited - resv[i].seen.debited

Clamp(x) == Max(0, Min(Units(Config.TokensPerMinute), x))

\* C9 as stated: over the window from the arrival of any request to now, the
\* token capacity is at least the capacity at the start of the window plus
\* the replenishment of the window minus the tokens admitted in it, clamped
\* to [0, tpm].  The window is closed at a decision point, where the
\* capacity has just been recomputed (LastReqTime = now).
CapacityAtLeastAccrual ==
    \A i \in Ids :
        LastReqTime = now =>
            TokenCapacity >=
                Clamp(resv[i].seen.TokenCapacity
                      + (now - resv[i].submittedAt) * Config.TokensPerMinute
                      - Units(tokensSince(i)))

\* C9 (amended): over the window from the arrival of any request to now, the
\* tokens admitted never exceed the token capacity held at the start of the
\* window plus the replenishment accrued since the capacity update that
\* precedes the window, minus the token capacity held now.
AdmittedWithinAccrual ==
    \A i \in Ids :
        Units(tokensSince(i)) <=
            resv[i].seen.TokenCapacity
            + (now - resv[i].seen.LastReqTime) * Config.TokensPerMinute
            - TokenCapacity

\* Tokens have been admitted in a window that opened on a capacity last
\* updated before it.
AdmittedInStaleWindow ==
    \E i \in Ids :
        /\ tokensSince(i) > 0
        /\ resv[i].seen.LastReqTime < resv[i].submittedAt
        /\ now > resv[i].submittedAt

RECURSIVE SumTokens(_)
SumTokens(S) ==
    IF S = {} THEN 0
    ELSE LET i == CHOOSE x \in S : TRUE
         IN  resv[i].tokens + SumTokens(S \ {i})

\* The reservations sent Ready in the 60 seconds that begin at clock reading s.
AdmittedInMinute(s) ==
    { j \in Ids :
        admitted(j) /\ s <= resv[j].verdictAt
            /\ resv[j].verdictAt < s + SecondsPerMinute }

\* C10: rpm and tpm are maxima per minute: in any 60-second window the
\* scheduler sends Ready to at most rpm reservations, whose required tokens
\* sum to at most tpm.
PerMinuteMaxima ==
    \A i \in Ids :
        admitted(i) =>
            LET W == AdmittedInMinute(resv[i].verdictAt)
            IN  /\ Cardinality(W) <= Config.ReqsPerMinute
                /\ SumTokens(W) <= Config.TokensPerMinute

\* C11: pre-check soundness: whenever a Verdict is Ready, at the moment run
\* decides on it and ever after, required tokens <= TokensPerMinute and
\* ReqsPerMinute >= 1 hold for the reservation and its scheduler; they hold
\* already for every reservation a handler submits to the scheduler.
ReadyPassedPreCheck ==
    /\ \A i \in Ids :
        (admitted(i) \/ resv[i].pc \in {"send", "await"}) =>
            /\ resv[i].tokens <= Config.TokensPerMinute
            /\ Config.ReqsPerMinute >= 1
    /\ sched.response = Ready =>
        /\ resv[sched.request].tokens <= Config.TokensPerMinute
        /\ Config.ReqsPerMinute >= 1
        /\ resv[sched.request].enqueued > 0

\* A reservation has been sent Ready after the handler turned away, at its
\* pre-check, a request of more tokens than TokensPerMinute.
ReadyBesideTooLarge ==
    \E i, j \in Ids :
        /\ admitted(i)
        /\ j < i
        /\ resv[j].tokens > Config.TokensPerMinute
        /\ resv[j].status = StatusBadRequest

\* C12: a request submitted to a scheduler is forwarded upstream only if the
\* Verdict it received is Ready, and not before it has received it: on
\* RateLimit the client gets 429, on RequestTooLarge the client gets 400, and
\* in neither case is an upstream call made for the request.  The handler
\* that holds its Verdict and has not gone on has written nothing, and
\* the 429 is the one status line of the request.
ForwardedOnlyOnReady ==
    \A i \in Ids :
        /\ (resv[i].h.sends /\ resv[i].h.forwarded) => admitted(i)
        /\ (resv[i].h.sends /\ ~answered(i)) => resv[i].h.written = << >>
        /\ answered(i) =>
            /\ resv[i].h.forwarded => resv[i].verdicts[1] = Ready
            /\ resv[i].pc = "answered" => resv[i].h.written = << >>
            /\ (resv[i].verdicts[1] = RateLimit /\ resv[i].pc # "answered") =>
                   /\ resv[i].pc = "done"
                   /\ resv[i].h.written = << StatusTooManyRequests >>
            /\ (resv[i].verdicts[1] = RequestTooLarge
                    /\ resv[i].pc # "answered") =>
                   resv[i].status = StatusBadRequest

\* A request has been forwarded on its Verdict Ready, after a wait in the
\* buffer of the scheduler, while a later one, submitted too, has no Verdict
\* yet and has not been forwarded.
ForwardedOnReadyAheadOfWaiting ==
    \E i, j \in Ids :
        /\ admitted(i)
        /\ resv[i].h.forwarded
        /\ resv[i].h.written = << StatusOK >>
        /\ resv[j].h.sends
        /\ ~answered(j)
        /\ ~resv[j].h.forwarded

\* r is a POST of a kind that carries a model: chat completion, completion,
\* embedding, edits or audio.
bearsModel(r) ==
    /\ r.Method = "POST"
    /\ ~Contains(r.Path, V1Files)
    /\ ~Contains(r.Path, V1FineTunes)
    /\ ~Contains(r.Path, V1Moderations)
    /\ ~Contains(r.Path, V1Images)
    /\ \/ Contains(r.Path, V1Audio)
       \/ HasSuffix(r.Path, V1ChatCompletions)
       \/ HasSuffix(r.Path, V1Completions)
       \/ HasSuffix(r.Path, V1Embeddings)
       \/ HasSuffix(r.Path, V1Edits)

\* The tokens a request requires: TokensForRequest of the request struct its
\* body decodes to.
requiredTokens(r) == TokensForRequest(parsedByPath(r).request)

\* The request i of the state after a step has just arrived, is a POST of a
\* kind that carries a model, names a model of the SchedulerMap, and requires
\* more tokens than TokensPerMinute or meets ReqsPerMinute < 1.
arrivesTooLarge(i) ==
    /\ i = Len(resv) + 1
    /\ i = Len(resv')
    /\ LET r == resv'[i].r
       IN  /\ bearsModel(r)
           /\ r.Body.Valid
           /\ r.Body.Model \in schedulers
           /\ ~requiredTokens(r).err
           /\ \/ requiredTokens(r).numTokens > Config.TokensPerMinute
              \/ Config.ReqsPerMinute < 1

\* C13: the pre-check of the handler: a request whose required tokens exceed
\* the TokensPerMinute of its model (or whose model has ReqsPerMinute < 1) is
\* answered 400 "Request too large", is not enqueued and not forwarded, its
\* handler leaves the capacities and the buffer of the scheduler as they
\* were, and nothing happens to the request afterwards.
PreCheckRejects ==
    [][ /\ \A i \in 1 .. Len(resv') :
            arrivesTooLarge(i) =>
                /\ resv'[i].pc = "done"
                /\ resv'[i].h.written = << StatusBadRequest >>
                /\ resv'[i].h.message = "LLProxy: Request too large for model"
                /\ resv'[i].enqueued = 0
                /\ ~resv'[i].h.forwarded
                /\ i \notin { Requests'[k] : k \in 1 .. Len(Requests') }
                /\ UNCHANGED << Requests, RequestCapacity, TokenCapacity,
                                LastReqTime, sched >>
        /\ \A i \in Ids :
            (resv[i].tokens > Config.TokensPerMinute /\ resv[i].pc = "done")
                => resv'[i] = resv[i] ]_vars

\* The request i of the state after a step has just arrived, is a POST of a
\* kind that carries a model, and names a model the SchedulerMap has no
\* entry for.
arrivesWithoutScheduler(i) ==
    /\ i = Len(resv) + 1
    /\ i = Len(resv')
    /\ LET r == resv'[i].r
       IN  /\ bearsModel(r)
           /\ r.Body.Valid
           /\ r.Body.Model # ""
           /\ r.Body.Model \notin schedulers

\* C14: a POST of a model-bearing kind whose model has no entry in the
\* SchedulerMap is answered 400 "No scheduler found", is not forwarded
\* upstream, changes the buffer and the capacities of no scheduler, and
\* nothing happens to the request afterwards.
NoSchedulerRejects ==
    [][ /\ \A i \in 1 .. Len(resv') :
            arrivesWithoutScheduler(i) =>
                /\ resv'[i].pc = "done"
                /\ resv'[i].h.written = << StatusBadRequest >>
                /\ resv'[i].h.message =
                       "LLMProxy: No scheduler found for model"
                /\ ~resv'[i].h.forwarded
                /\ ~resv'[i].h.fault
                /\ resv'[i].enqueued = 0
                /\ UNCHANGED << Requests, RequestCapacity, TokenCapacity,
                                LastReqTime, sched, enqueues, debited >>
        /\ \A i \in Ids :
            resv[i].h.message = "LLMProxy: No scheduler found for model"
                => resv'[i] = resv[i] ]_vars

\* C15: a POST of a model-bearing kind whose body fails to parse is answered
\* 400 with the message "error reading request body"; no reservation is
\* created, no capacity is debited and no upstream call is made, then or
\* later.
ParseFailureRejects ==
    [][ /\ \A i \in 1 .. Len(resv') :
            (/\ i = Len(resv) + 1
             /\ bearsModel(resv'[i].r)
             /\ ~resv'[i].r.Body.Valid) =>
                /\ resv'[i].pc = "done"
                /\ resv'[i].h.written = << StatusBadRequest >>
                /\ resv'[i].h.message = "LLProxy: error reading request body"
                /\ ~resv'[i].h.forwarded
                /\ ~resv'[i].h.fault
                /\ ~resv'[i].h.sends
                /\ resv'[i].enqueued = 0
                /\ UNCHANGED << Requests, RequestCapacity, TokenCapacity,
                                LastReqTime, sched, enqueues, debited >>
        /\ \A i \in Ids :
            (bearsModel(resv[i].r) /\ ~resv[i].r.Body.Valid)
                => resv'[i] = resv[i] ]_vars

\* A chat completion and an embedding, both without a body, have been
\* answered 400.
NoBodyTurnedAway ==
    \E i, j \in Ids :
        /\ resv[i].r = NewRequest("POST", ChatPath, NoBody)
        /\ resv[j].r = NewRequest("POST", EmbeddingsPath, NoBody)
        /\ resv[i].status = StatusBadRequest
        /\ resv[j].status = StatusBadRequest

\* C16: a POST of a model-bearing kind whose body is valid JSON but has no
\* model is a request parse error: the client gets 400 and the request is not
\* forwarded upstream; in particular it does not reach the upstream without
\* passing through a scheduler.
MissingModelRejects ==
    \A i \in Ids :
        (bearsModel(resv[i].r) /\ resv[i].r.Body.Valid
            /\ resv[i].r.Body.Model = "") =>
            /\ ~resv[i].h.forwarded
            /\ resv[i].pc = "done" => resv[i].status = StatusBadRequest

\* The steps of the forward of the request of record q, which bypassed the
\* scheduler: client.Do has been called, nothing is written before it
\* returns, the status of the upstream is the one status line written, its
\* body the body copied, and no message of the proxy is written.
relays(q) ==
    /\ q.h.forwarded
    /\ q.pc \in {"do", "copy", "done"}
    /\ q.h.written = IF q.pc = "do" THEN << >>
                     ELSE << Do(q.f.path).StatusCode >>
    /\ q.h.body = IF q.pc = "done" THEN Do(q.f.path).Body ELSE ""
    /\ q.h.message = ""

\* The request of record q has been kept from the scheduler.
bypasses(q) ==
    /\ ~q.h.sends
    /\ q.enqueued = 0
    /\ q.verdicts = << >>

\* The request i of the state after a step has arrived in the step or its
\* handler has moved in it.
moves(i) == i > Len(resv) \/ resv'[i] # resv[i]

\* C17: requests of a method other than POST bypass the scheduler: whatever
\* the path, the handler forwards the request, enqueues no reservation and
\* leaves the buffer and the capacities of the scheduler as they were, when
\* the request arrives and in every step of its forward.
NonPostBypasses ==
    [][ \A i \in 1 .. Len(resv') :
            resv'[i].r.Method # "POST" =>
                /\ relays(resv'[i])
                /\ bypasses(resv'[i])
                /\ moves(i) =>
                       UNCHANGED << Requests, RequestCapacity, TokenCapacity,
                                    LastReqTime, sched, enqueues, debited >>
      ]_vars

\* A GET on the path of the chat completions has been forwarded while an
\* earlier reservation sat in the buffer of the scheduler.
GetForwardedWhileWaiting ==
    \E i, j \in Ids :
        /\ Requests = << i >>
        /\ i < j
        /\ resv[j].r = NewRequest("GET", ChatPath, NoBody)
        /\ resv[j].h.forwarded
        /\ resv[j].status = StatusOK

\* C18: a POST to an images path (/v1/images/*) is not rate-limited and needs
\* no scheduler lookup: it is forwarded upstream whether or not the
\* configuration of the route has a model named "DALL-E 2", and it is never
\* answered "No scheduler found" and never ends in a fault of the handler.
ImagesForwarded ==
    \A i \in Ids :
        (resv[i].r.Method = "POST" /\ resv[i].r.Path = ImagesPath) =>
            /\ resv[i].h.forwarded
            /\ ~resv[i].h.fault
            /\ resv[i].h.message # "LLMProxy: No scheduler found for model"

\* r is a POST whose path matches none of the kinds of ParseRequest.
ofNoKind(r) ==
    /\ r.Method = "POST"
    /\ \A pattern \in { V1Files, V1FineTunes, V1Moderations, V1Images,
                        V1Audio } : ~Contains(r.Path, pattern)
    /\ \A suffix \in { V1ChatCompletions, V1Completions, V1Embeddings,
                       V1Edits } : ~HasSuffix(r.Path, suffix)

\* C19, amended: a POST whose path matches no known request kind and whose
\* body can be read bypasses the scheduler and is forwarded, and the status
\* and the body the upstream returns, a 404 included, are relayed to the
\* client as they are and not turned into an error of the proxy; one whose
\* body cannot be read is answered 400 "error reading request body" and is
\* not forwarded.
ReadableUnknownKindRelayed ==
    [][ \A i \in 1 .. Len(resv') :
            ofNoKind(resv'[i].r) =>
                /\ bypasses(resv'[i])
                /\ ~resv'[i].r.Body.ReadErr => relays(resv'[i])
                /\ resv'[i].r.Body.ReadErr =>
                       /\ resv'[i].pc = "done"
                       /\ ~resv'[i].h.forwarded
                       /\ resv'[i].h.written = << StatusBadRequest >>
                       /\ resv'[i].h.message =
                              "LLProxy: error reading request body"
                /\ (resv'[i].r = NewRequest("POST", BadRoutePath, NoBody)
                        /\ resv'[i].pc = "done") =>
                       /\ resv'[i].status = StatusNotFound
                       /\ resv'[i].h.body = "not found"
                /\ moves(i) =>
                       UNCHANGED << Requests, RequestCapacity, TokenCapacity,
                                    LastReqTime, sched, enqueues, debited >>
      ]_vars

\* POST /openai/badroute has been answered with the 404 "not found" of the
\* upstream, and the same POST with a body that cannot be read with a 400.
RelayedBesideUnread ==
    \E i, j \in Ids :
        /\ resv[i].r = NewRequest("POST", BadRoutePath, NoBody)
        /\ resv[i].h.forwarded
        /\ resv[i].h.written = << StatusNotFound >>
        /\ resv[i].h.body = "not found"
        /\ resv[j].r.Path = BadRoutePath
        /\ resv[j].r.Body.ReadErr
        /\ resv[j].h.written = << StatusBadRequest >>
        /\ ~resv[j].h.forwarded

\* C19: a POST whose path matches no known request kind bypasses the
\* scheduler and is forwarded, and the status and the body the upstream
\* returns, a 404 included, are relayed to the client as they are and not
\* turned into an error of the proxy.
UnknownKindRelayed ==
    [][ \A i \in 1 .. Len(resv') :
            ofNoKind(resv'[i].r) =>
                /\ bypasses(resv'[i])
                /\ relays(resv'[i])
                /\ (resv'[i].r = NewRequest("POST", BadRoutePath, NoBody)
                        /\ resv'[i].pc = "done") =>
                       /\ resv'[i].status = StatusNotFound
                       /\ resv'[i].h.body = "not found"
                /\ moves(i) =>
                       UNCHANGED << Requests, RequestCapacity, TokenCapacity,
                                    LastReqTime, sched, enqueues, debited >>
      ]_vars

\* path without its first "/"-delimited segment, "/" standing for the empty
\* path of a request line.
minusFirstSegment(path) ==
    IF \E k \in 2 .. Len(path) : path[k] = "/"
    THEN LET k == CHOOSE k \in 2 .. Len(path) :
                      path[k] = "/" /\ \A m \in 2 .. k - 1 : path[m] # "/"
         IN  SubSeq(path, k, Len(path))
    ELSE << "/" >>

\* C20: path rewrite: for every inbound path the upstream receives the
\* inbound path minus its first "/"-delimited segment; for /r/a/b it
\* receives /a/b and for /r/ it receives /.
PathRewritten ==
    /\ \A i \in Ids :
        resv[i].h.forwarded =>
            resv[i].f.path = minusFirstSegment(resv[i].r.Path)
    /\ forwardRequest(NewRequest("GET", << "/", "r", "/", "a", "/", "b" >>,
                                 NoBody)).path
           = << "/", "a", "/", "b" >>
    /\ forwardRequest(NewRequest("GET", << "/", "r", "/" >>, NoBody)).path
           = << "/" >>

\* The upstream has received "/" for the path of the route and the path of
\* the chat completions for a reservation that was sent Ready.
RouteAndChatForwarded ==
    \E i, j \in Ids :
        /\ resv[i].r.Path = RouteSlashPath
        /\ resv[i].h.forwarded
        /\ resv[i].f.path = << "/" >>
        /\ admitted(j)
        /\ resv[j].h.forwarded
        /\ resv[j].f.path = V1ChatCompletions

\* The "/"-delimited segments of an inbound path, the route being the first:
\* those that follow its leading "/".
pathSegments(path) ==
    IF path # << >> /\ path[1] = "/" THEN Tail(Split(path)) ELSE Split(path)

\* C21: an inbound path with fewer than two segments is rejected with a 4xx
\* parse error of the proxy and is never forwarded upstream.
ShortPathIsClientError ==
    \A i \in Ids :
        Len(pathSegments(resv[i].r.Path)) < 2 =>
            /\ ~resv[i].h.forwarded
            /\ resv[i].pc = "done"
            /\ resv[i].status >= 400
            /\ resv[i].status < 500
            /\ resv[i].h.message # ""

\* C22: a scheduler whose ReqsPerMinute <= 1 or TokensPerMinute <= 1 refuses
\* to start: it never dequeues a reservation, never sends a Verdict and
\* debits nothing, no request of its model is forwarded, the first step of
\* run ends the process with a fatal error, and nothing happens after that.
RefusesToStart ==
    [][ (Config.ReqsPerMinute <= 1 \/ Config.TokensPerMinute <= 1) =>
            /\ sched.pc # sched'.pc =>
                   sched.pc = "start" /\ sched'.pc = "fatal"
            /\ \A k \in 1 .. Len(Requests) : Requests'[k] = Requests[k]
            /\ \A i \in 1 .. Len(resv') :
                   /\ resv'[i].verdicts = << >>
                   /\ ~resv'[i].h.forwarded
            /\ debited' = 0
            /\ sched.pc = "fatal" => UNCHANGED vars ]_vars

\* The process exited on the Fatalw of a scheduler of ReqsPerMinute = 1 while
\* its buffer was full of reservations and another handler was parked on the
\* send.
ExitedWithReservation ==
    /\ sched.pc = "fatal"
    /\ Config.ReqsPerMinute = 1
    /\ Len(Requests) = Config.MaxQueueSize
    /\ \A k \in 1 .. Len(Requests) : resv[Requests[k]].pc = "await"
    /\ \E j \in Ids : resv[j].pc = "send"

\* The cost formula of the chat completions, in numbers that do not wrap:
\* non-negative integers of 2 * Bytes digits in base Base.
RECURSIVE WideColumn(_, _, _, _)
WideColumn(x, y, k, j) ==
    IF j = 0 THEN 0
    ELSE (IF k + 1 - j \in 1 .. Bytes THEN x[j] * y[k + 1 - j] ELSE 0)
         + WideColumn(x, y, k, j - 1)

RECURSIVE WideProduct(_, _, _, _)
WideProduct(x, y, k, carry) ==
    IF k > 2 * Bytes THEN << >>
    ELSE LET s == WideColumn(x, y, k, Min(k, Bytes)) + carry
         IN  << s % Base >> \o WideProduct(x, y, k + 1, s \div Base)

RECURSIVE WidePlus(_, _, _)
WidePlus(w, k, carry) ==
    IF k > Len(w) THEN << >>
    ELSE << (w[k] + carry) % Base >>
         \o WidePlus(w, k + 1, (w[k] + carry) \div Base)

RECURSIVE SumOverMessages(_, _, _)
SumOverMessages(messages, perMessage, perName) ==
    IF messages = << >> THEN 0
    ELSE perMessage + Head(messages).Content + Head(messages).Role
         + Head(messages).Name
         + (IF Head(messages).Name # 0 THEN perName ELSE 0)
         + SumOverMessages(Tail(messages), perMessage, perName)

\* sum over messages + per_request + n * max_tokens, for a request whose n
\* is not negative
CostOf(r) ==
    LET old == r.Model = "gpt-3.5-turbo-0301"
        n == IF r.N = ToInt64(0) THEN ToInt64(1) ELSE r.N
        maxTokens ==
            IF LessThanOne(r.MaxTokens) THEN ToInt64(15) ELSE r.MaxTokens
    IN  WidePlus(WideProduct(n, maxTokens, 1, 0), 1,
                 SumOverMessages(r.Messages, IF old THEN 4 ELSE 3,
                                 IF old THEN -1 ELSE 1) + 3)

\* C23: for every chat completion request of a chat model (n unset or
\* positive), TokensForRequest returns the sum over the messages of
\* per_message + |E(content)| + |E(role)| + |E(name)| (+ per_name for a
\* non-empty name), plus per_request, plus n * max_tokens, n being 1 when
\* unset and max_tokens 15 when unset or non-positive, with 3/1/3 for the
\* three constants and 4/-1/3 for gpt-3.5-turbo-0301.
CostIsTheSum ==
    \A i \in Ids :
        LET r == resv[i].r.Body
        IN  (/\ resv[i].r = ChatPost([r EXCEPT !.Valid = TRUE])
             /\ r.Valid
             /\ r.Model \in FamilyModels
             /\ ~IsNegative(r.N)) =>
                /\ resv[i].h.message
                       # "LLMProxy: could not extract tokens for request"
                /\ resv[i].tokens >= 0
                /\ DigitsOf(resv[i].tokens, 2 * Bytes) = CostOf(r)

\* C24: a client that disconnects while its reservation waits for a Verdict
\* does not rescind it.  The disconnection changes nothing of the scheduler
\* and leaves the reservation its place in the buffer; a reservation whose
\* client is gone stays in the buffer or in the hand of run until it is
\* answered, is answered at most once and, once the scheduler has nothing
\* left to do, exactly once; its Ready debits one request and its tokens;
\* and whenever run is at the send of its Verdict the handler is at the
\* receive, so run is never left blocked on the channel.
DisconnectKeepsReservation ==
    [][ /\ \A i \in Ids :
            (resv'[i].gone /\ ~resv[i].gone) =>
                /\ resv'[i] = [resv[i] EXCEPT !.gone = TRUE]
                /\ UNCHANGED << Requests, sched, RequestCapacity,
                                TokenCapacity, LastReqTime, enqueues, debited >>
        /\ \A i \in 1 .. Len(resv') :
            (resv'[i].gone /\ resv'[i].enqueued > 0) =>
                /\ Len(resv'[i].verdicts) <= 1
                /\ resv'[i].verdicts = << >> =>
                       /\ resv'[i].pc = "await"
                       /\ \/ \E k \in 1 .. Len(Requests') : Requests'[k] = i
                          \/ sched'.request = i
                /\ (sched'.pc = "select" /\ Requests' = << >>) =>
                       Len(resv'[i].verdicts) = 1
        /\ (sched'.pc = "respond" /\ resv'[sched'.request].gone) =>
                resv'[sched'.request].pc = "await"
        /\ (/\ sched'.response = Ready
            /\ sched.response # Ready
            /\ resv[sched'.request].gone) =>
                /\ RequestCapacity' = freshRequests - Units(1)
                /\ TokenCapacity' =
                       freshTokens - Units(resv[sched'.request].tokens) ]_vars

\* A reservation whose client went away while it waited behind another one
\* has been sent Ready, and run is back in its select.
GoneAndAdmitted ==
    \E i \in Ids :
        /\ resv[i].gone
        /\ resv[i].enqueued > 1
        /\ admitted(i)
        /\ resv[i].verdictAt > resv[i].submittedAt
        /\ sched.pc = "select"

\* C25, amended: /readyz answers 200 "OK" in every state before the
\* goroutine of the signals has taken the first SIGINT or SIGTERM from sig,
\* and 503 "Not Ready" in every state after HealthShutdown has run; that
\* happens after the signal is taken, signalReceived being set first, and
\* before the server begins to drain, and a probe in between is still
\* answered 200.  Once false isReady is never true again.
ReadyzFollowsHealthShutdown ==
    [][ /\ \A k \in 1 .. Len(main'.probes) :
            LET probe == main'.probes[k]
            IN  /\ probe.code \in {StatusOK, StatusServiceUnavailable}
                /\ probe.body = IF probe.code = StatusOK THEN "OK"
                                ELSE "Not Ready"
                /\ ~probe.signalReceived => probe.code = StatusOK
                /\ probe.server # "serving" =>
                       probe.code = StatusServiceUnavailable
        /\ Len(main'.probes) = Len(main.probes) + 1 =>
               main'.probes[Len(main'.probes)].code =
                   IF main.isReady THEN StatusOK
                   ELSE StatusServiceUnavailable
        /\ main'.isReady = (main'.shutdown \in {"none", "received"})
        /\ ~main'.isReady => main'.signalReceived
        /\ main'.server # "serving" => ~main'.isReady
        /\ (main.server = "serving" /\ main'.server # "serving") =>
                ~main.isReady
        /\ ~main.isReady => ~main'.isReady ]_vars

\* /readyz has answered 200 after the first signal was taken and before
\* HealthShutdown, and 503 while the server was draining.
ReadyAfterSignalThenDraining ==
    /\ Len(main.probes) = 2
    /\ main.probes[1].code = StatusOK
    /\ main.probes[1].signalReceived
    /\ main.probes[2].code = StatusServiceUnavailable
    /\ main.probes[2].server = "draining"

\* C25: shutdown ordering.  /readyz answers 200 "OK" in every state before
\* the first SIGINT or SIGTERM (the one the goroutine of the signals takes
\* from sig) and 503 "Not Ready" in every state after it; isReady is false
\* whenever the server has begun to drain, it was false already in the state
\* the draining begins from, and once false it is never true again.
ReadyzFollowsSignal ==
    [][ /\ \A k \in 1 .. Len(main'.probes) :
            LET probe == main'.probes[k]
            IN  IF probe.signalReceived
                THEN /\ probe.code = StatusServiceUnavailable
                     /\ probe.body = "Not Ready"
                ELSE /\ probe.code = StatusOK
                     /\ probe.body = "OK"
        /\ main'.isReady = ~main'.signalReceived
        /\ main'.server # "serving" => ~main'.isReady
        /\ (main.server = "serving" /\ main'.server # "serving") =>
                ~main.isReady
        /\ ~main.isReady => ~main'.isReady ]_vars

\* /readyz has answered 200 before any signal was sent and 503 while the
\* server was draining.
ReadyThenDraining ==
    /\ Len(main.probes) = 2
    /\ main.probes[1].code = StatusOK
    /\ ~main.probes[1].signalled
    /\ main.probes[2].code = StatusServiceUnavailable
    /\ main.probes[2].server = "draining"

\* The configuration main has loaded, and the file it loaded it from.
loaded == main.config # << >>
config == main.config[1]
file == main.file[1]

\* The values the routes of the file have are returned unchanged, and no
\* route or model is added or lost.
RoutesUnchanged ==
    file.routes # Absent =>
        /\ DOMAIN config.Routes = DOMAIN file.routes[1]
        /\ \A route \in DOMAIN file.routes[1] :
            LET r == file.routes[1][route]
                c == config.Routes[route]
            IN  /\ r.forward # Absent => c.Forward = r.forward[1]
                /\ r.provider # Absent => c.Provider = r.provider[1]
                /\ r.models # Absent =>
                    /\ DOMAIN c.Models = DOMAIN r.models[1]
                    /\ \A name \in DOMAIN r.models[1] :
                        LET m == r.models[1][name]
                            d == c.Models[name]
                        IN  /\ m.maxQueueSize # Absent =>
                                   d.MaxQueueSize = m.maxQueueSize[1]
                            /\ m.maxQueueWait # Absent =>
                                   d.MaxQueueWait = m.maxQueueWait[1]
                            /\ m.rpm # Absent => d.ReqsPerMinute = m.rpm[1]
                            /\ m.tpm # Absent => d.TokensPerMinute = m.tpm[1]
                            /\ m.cpm # Absent => d.CharsPerMinute = m.cpm[1]

\* C26 as stated: LoadConfig applies the defaults exactly when a value is
\* absent from the file (port 8080, healthPort 8081, logging.level "info",
\* logging.type "console"), a value the file has being returned as it is,
\* and every value of the routes is returned unchanged.
DefaultsExactlyWhenAbsent ==
    loaded =>
        /\ config.Application.Port =
               IF file.port = Absent THEN 8080 ELSE file.port[1]
        /\ config.Application.HealthPort =
               IF file.healthPort = Absent THEN 8081 ELSE file.healthPort[1]
        /\ config.Logging.Level =
               IF file.level = Absent THEN "info" ELSE file.level[1]
        /\ config.Logging.Type =
               IF file.type = Absent THEN "console" ELSE file.type[1]
        /\ RoutesUnchanged

\* C26 (amended): LoadConfig applies the defaults exactly when a value is
\* absent from the file or is there as the zero value (0 for the ports, ""
\* for the level and the type); every other value of the four, and every
\* value of the routes, is returned unchanged.
DefaultsWhenAbsentOrZero ==
    loaded =>
        /\ config.Application.Port =
               IF file.port \in {Absent, Present(0)} THEN 8080
               ELSE file.port[1]
        /\ config.Application.HealthPort =
               IF file.healthPort \in {Absent, Present(0)} THEN 8081
               ELSE file.healthPort[1]
        /\ config.Logging.Level =
               IF file.level \in {Absent, Present("")} THEN "info"
               ELSE file.level[1]
        /\ config.Logging.Type =
               IF file.type \in {Absent, Present("")} THEN "console"
               ELSE file.type[1]
        /\ RoutesUnchanged

\* The file of TestLoadConfig, which has the route and none of the four
\* values, has been loaded with the four defaults.
TestFileLoaded ==
    /\ loaded
    /\ file.port = Absent /\ file.healthPort = Absent
    /\ file.level = Absent /\ file.type = Absent
    /\ file.routes # Absent
    /\ file.routes[1]["/route1"].models # Absent
    /\ config.Routes["/route1"].Forward = "http://forward1.com"
    /\ config.Routes["/route1"].Models["model1"].MaxQueueWait = 15
    /\ config.Routes["/route1"].Models["model1"].CharsPerMinute = 100000
    /\ config.Application = [Port |-> 8080, HealthPort |-> 8081]
    /\ config.Logging = [Level |-> "info", Type |-> "console"]

\* C27: updateCapacity implements the replenishment rule in every state: it
\* leaves RequestCapacity = min(rpm, old + elapsed * rpm), TokenCapacity =
\* min(tpm, old + elapsed * tpm) and LastReqTime = now, elapsed being
\* measured from the previous LastReqTime, so that the guard which skips the
\* arithmetic when both capacities are full never changes the result.  This
\* is what updateCapacity would return in every state, and what the steps of
\* run that call it leave: the idle refresh and a turn of waitForCapacity
\* that sleeps leave the rule's values, a turn that admits leaves them minus
\* the debit.
UpdateIsTheRule ==
    [][ /\ updateCapacity(TokenCapacity, RequestCapacity, LastReqTime, now)
             = [TokenCapacity |-> freshTokens,
                RequestCapacity |-> freshRequests,
                LastReqTime |-> now]
        /\ (\/ sched.pc = "select" /\ sched'.pc = "select" /\ sched' # sched
            \/ sched.pc \in {"wait", "sleep"} /\ sched'.pc = "sleep"
                   /\ sched' # sched) =>
                /\ TokenCapacity' = freshTokens
                /\ RequestCapacity' = freshRequests
                /\ LastReqTime' = now
        /\ (sched.pc \in {"wait", "sleep"} /\ sched'.pc = "respond") =>
                /\ TokenCapacity' =
                       freshTokens - Units(resv[sched.request].tokens)
                /\ RequestCapacity' = freshRequests - Units(1)
                /\ LastReqTime' = now ]_vars

\* After an admission that left the token capacity above TokensPerMinute
\* (a reservation of negative tokens), updateCapacity has run and has
\* brought it back to TokensPerMinute, the request capacity being short
\* of full.
UpdatedFromAboveFull ==
    \E i \in Ids :
        /\ admitted(i)
        /\ resv[i].tokens < 0
        /\ LastReqTime > resv[i].verdictAt
        /\ TokenCapacity = Units(Config.TokensPerMinute)
        /\ RequestCapacity < Units(Config.ReqsPerMinute)

\* C28: both capacities are monotonic non-decreasing except at admissions:
\* RequestCapacity and TokenCapacity decrease only in the step of run that
\* admits a reservation (the debit that precedes the send of Ready), and no
\* other step (idle refresh, turn of the wait loop, rejection as
\* RequestTooLarge) lowers either of them.
DecreaseOnlyAtAdmission ==
    [][ (TokenCapacity' < TokenCapacity
            \/ RequestCapacity' < RequestCapacity) =>
            /\ sched.pc \in {"wait", "sleep"}
            /\ sched'.pc = "respond"
            /\ sched'.response = Ready ]_vars

\* need, in milliseconds: the time until the capacities tc and rc hold one
\* request and the tokens, at the rates of the Config
needMillis(tc, rc, tokens) ==
    Max(Max(0, ((Units(1) - rc) * SecondsPerMinute * MillisPerSecond)
                   \div Units(Config.ReqsPerMinute)),
        Max(0, ((Units(tokens) - tc) * SecondsPerMinute * MillisPerSecond)
                   \div Units(Config.TokensPerMinute)))

\* min(2 seconds, need * 60 seconds + 0.1 seconds), in milliseconds
policySleep(tc, rc, tokens) ==
    Min(2 * MillisPerSecond,
        needMillis(tc, rc, tokens) + MillisPerSecond \div 10)

\* C29: wait policy: when the reservation in hand is not admissible, run
\* sleeps for min(2 seconds, need * 60 seconds + 0.1 seconds) before it
\* evaluates again, need being the minutes until the capacities suffice; and
\* a gap shorter than 1.9 seconds is closed after this single sleep.
SleepsForTheNeed ==
    [][ (sched'.pc = "sleep" /\ sched' # sched) =>
            LET tokens == resv[sched'.request].tokens
                need == needMillis(TokenCapacity', RequestCapacity', tokens)
                woken == sched'.wakeAt - now
            IN  /\ sched'.wakeAt =
                       wakeTime(now, policySleep(TokenCapacity',
                                                 RequestCapacity', tokens))
                /\ need < 1900 =>
                       haveCapacity(
                           TokenCapacity' + woken * Config.TokensPerMinute,
                           RequestCapacity' + woken * Config.ReqsPerMinute,
                           tokens) ]_vars

\* The reservation run holds (received and not yet answered), if any.
inHand == IF sched.request = 0 THEN { } ELSE { sched.request }

\* The reservations submitted and not yet given a verdict: those sent on
\* scheduler.Requests and not yet answered, and those of the handlers
\* that the full buffer keeps parked on the send.
submitted ==
    { i \in Ids : resv[i].pc = "await" } \cup
        (IF Len(Requests) >= Config.MaxQueueSize THEN Senders ELSE { })

\* C30: the arrivals buffer never holds more than MaxQueueSize
\* reservations, whatever the number of concurrent handlers; and the
\* reservations outstanding (submitted by a handler and not yet answered
\* on their Response channel) number at most MaxQueueSize plus the one run
\* is evaluating.
OutstandingWithinQueueSize ==
    /\ Len(Requests) <= Config.MaxQueueSize
    /\ Cardinality(submitted) <= Config.MaxQueueSize + Cardinality(inHand)

\* C31: once run has written the Verdict of a reservation, the Response
\* channel of the reservation is closed.
ReplySlotClosed ==
    \A i \in Ids : answered(i) => resv[i].closed

\* The handler of request i came to the pre-check and returned there.
turnedAway(i) ==
    /\ resv[i].pc = "done"
    /\ resv[i].enqueued = 0
    /\ resv[i].h.message = "LLProxy: Request too large for model"

\* The handler of request i came to the pre-check.
preChecked(i) == resv[i].h.sends \/ turnedAway(i)

\* No reservation that was enqueued is answered RequestTooLarge by run.
NoTooLargeAfterEnqueue ==
    /\ \A i \in Ids :
           resv[i].enqueued > 0 =>
               \A k \in 1 .. Len(resv[i].verdicts) :
                   resv[i].verdicts[k] # RequestTooLarge
    /\ sched.response # RequestTooLarge

\* C32: the pre-check of the handler and the RequestTooLarge check of run
\* reject exactly the same reservations, those of more tokens than
\* TokensPerMinute, so that no reservation enqueued is ever answered
\* RequestTooLarge by run.
SameRejections ==
    /\ \A i \in Ids :
           preChecked(i) =>
               (turnedAway(i) <=> resv[i].tokens > Config.TokensPerMinute)
    /\ NoTooLargeAfterEnqueue

\* C32, amended: the pre-check turns away the reservations of more tokens
\* than TokensPerMinute and, besides, every reservation of a scheduler whose
\* ReqsPerMinute is below 1; run past its start has ReqsPerMinute above 1,
\* where the two checks agree; and no reservation enqueued is ever answered
\* RequestTooLarge by run.
SameRejectionsOnTokens ==
    /\ \A i \in Ids :
           preChecked(i) =>
               (turnedAway(i) <=>
                    (resv[i].tokens > Config.TokensPerMinute
                         \/ Config.ReqsPerMinute < 1))
    /\ sched.pc \notin {"start", "fatal"} => Config.ReqsPerMinute > 1
    /\ NoTooLargeAfterEnqueue

\* A reservation within TokensPerMinute has been enqueued, received by run
\* and sent Ready, and a request of more tokens than TokensPerMinute has
\* been turned away at the pre-check and never enqueued.
AdmittedAndTurnedAway ==
    \E i, j \in Ids :
        /\ resv[i].enqueued > 0
        /\ resv[i].verdicts = << Ready >>
        /\ resv[i].tokens <= Config.TokensPerMinute
        /\ turnedAway(j)
        /\ resv[j].tokens > Config.TokensPerMinute
        /\ Config.ReqsPerMinute > 1

\* C33: the token cost of every chat completion request is a non-negative
\* integer, also when n * max_tokens overflows the machine integer: no
\* reservation of negative tokens is ever enqueued, and the debit of an
\* admission never raises TokenCapacity.
CostNeverNegative ==
    [][ /\ \A i \in 1 .. Len(resv') : resv'[i].tokens >= 0
        /\ \A k \in 1 .. Len(Requests') : resv'[Requests'[k]].tokens >= 0
        /\ (sched.pc \in {"wait", "sleep"} /\ sched'.pc = "respond") =>
               TokenCapacity' <= freshTokens ]_vars

\* The state of the scheduler of TEST_MODEL: its queue, its capacities, its
\* run and the requests of its handlers.
ownScheduler ==
    << Requests, LastReqTime, RequestCapacity, TokenCapacity, sched, resv,
       enqueues, debited >>

\* The requests for model among those the handlers of one scheduler took.
requestsFor(taken, model) ==
    { i \in 1 .. Len(taken) : taken[i].h.model = model }

\* The first request for model among taken found its scheduler with room in
\* the buffer, and is answered Ready at the clock reading of its arrival.
prompt(taken, model) ==
    \A i \in requestsFor(taken, model) :
        (\A j \in requestsFor(taken, model) : i <= j) =>
            /\ ~taken[i].full
            /\ taken[i].verdicts \in {<< >>, << Ready >>}
            /\ taken[i].verdicts = << >> => now = taken[i].submittedAt
            /\ taken[i].verdicts # << >> =>
                   taken[i].verdictAt = taken[i].submittedAt

\* C34: the schedulers of different models are independent: a step of one
\* scheduler or of its handlers (an enqueue, a turn of the wait loop, an
\* admission) leaves the queue, the capacities and the reservations of the
\* other unchanged, and the first reservation for a model, which finds its
\* own scheduler idle and full of capacity, is neither parked on the send nor
\* delayed nor rejected, whatever waits at the head or fills the queue of the
\* other scheduler.
SchedulersIndependent ==
    [][ /\ ownScheduler' # ownScheduler => peer' = peer
        /\ peer' # peer => ownScheduler' = ownScheduler
        /\ prompt(resv', TEST_MODEL)
        /\ prompt(resv', PEER_MODEL)
        /\ prompt(peer'.resv, TEST_MODEL)
        /\ prompt(peer'.resv, PEER_MODEL) ]_vars

\* The scheduler of TEST_MODEL sleeps in waitForCapacity with a reservation
\* in hand and another in its buffer, and at that moment the scheduler of
\* PEER_MODEL sends Ready for a reservation of its own.
ReadyBesideWaitingHead ==
    /\ sched.pc = "sleep"
    /\ sched.request # 0
    /\ Requests # << >>
    /\ peer.sched.pc = "respond"
    /\ peer.sched.response = Ready
    /\ peer.resv[peer.sched.request].h.model = PEER_MODEL
    /\ peer.RequestCapacity < Units(Config.ReqsPerMinute)
    /\ RequestCapacity < Units(Config.ReqsPerMinute)

\* C35: every handled request produces exactly one response: on every path
\* through the handler the status line is written exactly once, and an error
\* response is never followed or preceded by a forwarded upstream response.
ExactlyOneResponse ==
    \A i \in Ids :
        resv[i].pc = "done" =>
            /\ Len(resv[i].h.written) = 1
            /\ ~(resv[i].h.relayed /\ resv[i].h.message # "")

====
